---- MODULE Spec2Model ----
(***************************************************************************)
(* Effective-dated price store of the gold / currency backend.             *)
(*                                                                         *)
(* GoldPrice (src/models/GoldPrice.js) and CurrencyRate                    *)
(* (src/unnamed/part_000) are statement-for-statement twins over the       *)
(* tables gold_prices and currency_rates; the model keeps one store whose  *)
(* instruments are the gold types and the currencies.                      *)
(*                                                                         *)
(* Numbers are fixed point.  A stored rate x stands for x / RateScale, a   *)
(* margin m for m / MarginScale, a final rate f for                        *)
(* f / (RateScale * MarginScale), a converted amount c for c / Precision4. *)
(* Arithmetic is exact; binary floating point error is not modelled.       *)
(* SQL statements are modelled by the meaning of their text, the database  *)
(* wrapper (DatabaseManager) by its code.                                  *)
(***************************************************************************)
EXTENDS Integers, Sequences, FiniteSets, TLC

VARIABLES
    rows,      \* gold_prices / currency_rates: set of price records
    nextId,    \* next value of the SERIAL id column
    now,       \* datetime('now') of the database, whole seconds
    audit,     \* audit_log: sequence of <<action, entity_id>>
    resp,      \* outcome of the last operation (what the caller observes)
    pc,        \* per caller: position inside an in-flight create
    arg,       \* per caller: priceData of the in-flight create, the rowCount
               \* of its UPDATE and the id sequence when the UPDATE ran
    calc,      \* last application of the margin / rate calculator
    settings,        \* store_settings: set of [key, value, type]
    rateLimitStore,  \* security.js rateLimitStore: identifier -> clientData
    loginAttempts,   \* security.js loginAttempts: identifier -> record
    users,           \* users: username -> [role, attempts, lockedUntil]
    session,         \* req.session of each client
    clock,           \* Date.now() of the server process, in seconds
    req,             \* the last request as the middleware chain saw it
    ipFailed,        \* history: per client, the times of its failed logins
    sessions,        \* sessions table: per client, the row of its token
    hits             \* history: per limited route and client, its requests

secVars == <<settings, rateLimitStore, loginAttempts, users, session, clock,
             req, ipFailed, sessions, hits>>

vars == <<rows, nextId, now, audit, resp, pc, arg, calc,
          settings, rateLimitStore, loginAttempts, users, session, clock,
          req, ipFailed, sessions, hits>>

-----------------------------------------------------------------------------
(* Bounds *)

MaxRows  == 2     \* ids handed out by the SERIAL column
MaxTime  == 2     \* seconds on the database clock
MaxAudit == 1     \* audit entries the audit_log table takes
MaxBulk  == 2     \* elements of a bulk-update request
MaxClock == 5     \* seconds on the server clock

-----------------------------------------------------------------------------
(* Values *)

NULL  == 0        \* SQL NULL / JS null; ids and timestamps start at 1
UNDEF == -1       \* JS undefined: a field absent from a partial payload
NAN   == -3       \* NaN: in a payload (parseFloat of no number), in a response

RateScale   == 100
MarginScale == 100
Precision4  == 10000

Currencies == {"USD", "SAR"}
GoldTypes  == <<"G24", "G18">>          \* ORDER BY display_order
Purity(g)  == IF g = "G24" THEN 9999 ELSE 7500   \* purity * PurityScale
PurityScale == 10000
Instruments == Currencies \cup {GoldTypes[k] : k \in 1..Len(GoldTypes)}

Procs == {1, 2}

\* client identifiers (req.ip), each with its own session cookie
Clients == {"ip1", "ip2"}

\* new Map()
EmptyMap == [c \in {} |-> NULL]

\* req.session before login: no userId, no role, no csrfToken
NoRole    == ""     \* session.role undefined (falsy, like '')
NoToken   == ""     \* csrfToken undefined (falsy, like '')
NoSession == [userId |-> NULL, role |-> NoRole, csrfToken |-> NoToken]

\* users: the administrator the seed script inserts, a manager and a user
SeedUsers ==
    [u \in {"admin", "manager", "user"} |->
        [id |-> CASE u = "admin" -> 1 [] u = "manager" -> 2 [] OTHER -> 3,
         role |-> u, attempts |-> 0, lockedUntil |-> NULL,
         isActive |-> TRUE, password |-> "good"]]

Data(i, b, s, mb, ms, man) ==
    [inst |-> i, buy |-> b, sell |-> s, marginBuy |-> mb, marginSell |-> ms,
     isManual |-> man]

\* priceData / rateData payloads handed to create
CreateInputs ==
    { Data("USD", 100, 100, 0, 0, 1),
      Data("USD", 100, 100, 2, 100, 0),
      Data("SAR", 375, 380, 0, UNDEF, 1) }

\* a partial payload handed to update: buy falsy and marginBuy absent (both
\* kept), sell, marginSell and isManual given (marginSell the defined 0)
UpdateInputs ==
    { Data(NULL, 0, 380, UNDEF, 0, 1) }

-----------------------------------------------------------------------------
(* JavaScript helpers *)

\* a || b on numbers: 0 and undefined are falsy
OrElse(a, b) == IF a = UNDEF \/ a = 0 \/ a = NAN THEN b ELSE a

\* a !== undefined ? a : b
IfDefined(a, b) == IF a # UNDEF THEN a ELSE b

\* x ? 1 : 0
Truthy01(x) == IF x = UNDEF \/ x = 0 THEN 0 ELSE 1

\* Math.round(n / d) for n >= 0, d > 0
RoundDiv(n, d) == (n \div d) + (IF 2 * (n % d) >= d THEN 1 ELSE 0)

\* the database clock when the next statement runs
Advance(t) == IF t < MaxTime THEN {t, t + 1} ELSE {t}

-----------------------------------------------------------------------------
(* DatabaseManager and SQL statements *)

\* DatabaseManager.run: id: res.rows[0]?.id || null
RunId(returned) == IF returned = <<>> THEN NULL ELSE returned[1]

\* SELECT ... WHERE id = ?
FindById(s, id) == IF \E r \in s : r.id = id THEN id ELSE NULL

RowOf(s, id) == CHOOSE r \in s : r.id = id

OpenRows(s, i) == {r \in s : r.inst = i /\ r.until = NULL}

\* variants: the UPDATE left out; the UPDATE stamping a later second
CloseOpenSkipped(s, i, t) == s

CloseOpenLate(s, i, t) ==
    {IF r.inst = i /\ r.until = NULL THEN [r EXCEPT !.until = t + 1] ELSE r : r \in s}

\* UPDATE ... SET effective_until = datetime('now')
\*  WHERE <instrument> = ? AND effective_until IS NULL
CloseOpen(s, i, t) ==
    {IF r.inst = i /\ r.until = NULL THEN [r EXCEPT !.until = t] ELSE r : r \in s}

\* INSERT INTO ... VALUES (?, ?, ?, ?, ?, ?, ?, ?, datetime('now'))
NewRow(id, data, t) ==
    [id |-> id, inst |-> data.inst, buy |-> data.buy, sell |-> data.sell,
     spread |-> data.sell - data.buy,
     marginBuy |-> OrElse(data.marginBuy, 0),
     marginSell |-> OrElse(data.marginSell, 0),
     isManual |-> Truthy01(data.isManual),
     from |-> t, until |-> NULL]

\* logChange: INSERT INTO audit_log; a failure is caught and only printed
LogChange(log, entityId, action, logOk) ==
    IF logOk THEN Append(log, <<action, entityId>>) ELSE log

\* variant: logChange lets the failure of its INSERT out to the caller
LogChangeRethrows(logOk) == ~logOk

\* whether logChange throws to its caller: the catch block prints and
\* returns
LogChangeThrows(logOk) == FALSE

\* variant: effective_until >= now
CurrentCandidatesInclusive(s, i, t) ==
    LET q == {r \in s : /\ r.inst = i
                        /\ r.from <= t
                        /\ (r.until = NULL \/ r.until >= t)}
    IN {r \in q : \A o \in q : o.from <= r.from}

\* WHERE effective_from <= now AND (effective_until IS NULL OR
\* effective_until > now) ORDER BY effective_from DESC LIMIT 1:
\* the rows LIMIT 1 may return (the order of equal effective_from is not
\* specified by the statement)
CurrentCandidates(s, i, t) ==
    LET q == {r \in s : /\ r.inst = i
                        /\ r.from <= t
                        /\ (r.until = NULL \/ r.until > t)}
    IN {r \in q : \A o \in q : o.from <= r.from}

-----------------------------------------------------------------------------
(* create *)

\* res.status(status).json({success: false, code}) of a controller that
\* returns before it calls the model
Rejected(route, id, status, code) ==
    [op |-> "rejected", route |-> route, id |-> id, status |-> status,
     code |-> code]

\* the store as one value: what a handler reads and writes
Db == [rows |-> rows, nextId |-> nextId, audit |-> audit, now |-> now,
       ret |-> NULL]

\* the whole of create: UPDATE at t1, INSERT at t2, logChange,
\* findById(result.id)
CreateOp(d, data, t1, t2, logOk) ==
    LET closed   == CloseOpen(d.rows, data.inst, t1)
        inserted == closed \cup {NewRow(d.nextId, data, t2)}
        resultId == RunId(<<>>)        \* the INSERT has no RETURNING id
    IN [rows   |-> inserted,
        nextId |-> d.nextId + 1,
        audit  |-> LogChange(d.audit, resultId, "CREATE", logOk),
        now    |-> t2,
        ret    |-> FindById(inserted, resultId),
        threw  |-> LogChangeThrows(logOk)]

\* the audit insert may fail at any time; it does once the table holds
\* MaxAudit entries
LogOutcomes(log) == IF Len(log) < MaxAudit THEN BOOLEAN ELSE {FALSE}

\* every way one create can run from d: the clock may tick before each
\* statement, the audit insert may fail
CreateOutcomes(d, data) ==
    UNION {{CreateOp(d, data, t1, t2, logOk) :
                t2 \in Advance(t1), logOk \in LogOutcomes(d.audit)} :
           t1 \in Advance(d.now)}

Idle == \A p \in Procs : pc[p] = "idle"

Store(d) ==
    /\ rows' = d.rows
    /\ nextId' = d.nextId
    /\ audit' = d.audit
    /\ now' = d.now

\* GoldPrice.create / CurrencyRate.create: the statements of the handler
create(data) ==
    /\ nextId <= MaxRows
    /\ \E d \in CreateOutcomes(Db, data) :
         /\ Store(d)
         /\ resp' = [op |-> "create", inst |-> data.inst, ok |-> ~d.threw,
                     inserted |-> nextId, ret |-> d.ret, since |-> nextId]
    /\ UNCHANGED <<pc, arg, calc>>

Create(data) ==
    /\ Idle
    /\ create(data)
    /\ UNCHANGED secVars

-----------------------------------------------------------------------------
(* update *)

\* variant: the payload ignored
MergeKeepsOld(price, pd) ==
    Data(price.inst, price.buy, price.sell, price.marginBuy, price.marginSell,
         price.isManual)

\* the fields update hands to create, or writes in place
Merge(price, pd) ==
    Data(price.inst,
         OrElse(pd.buy, price.buy),
         OrElse(pd.sell, price.sell),
         IfDefined(pd.marginBuy, price.marginBuy),
         IfDefined(pd.marginSell, price.marginSell),
         IfDefined(pd.isManual, price.isManual))

\* variant: the UPDATE leaves the spread column as it was
UpdateInPlaceOldSpread(s, id, pd) ==
    LET price == RowOf(s, id)
        m     == Merge(price, pd)
    IN {IF r.id = id
        THEN [r EXCEPT !.buy = m.buy, !.sell = m.sell,
                       !.marginBuy = m.marginBuy,
                       !.marginSell = m.marginSell,
                       !.isManual = Truthy01(m.isManual)]
        ELSE r : r \in s}

\* UPDATE ... SET buy = ?, sell = ?, spread = ?, margin_buy = ?,
\*  margin_sell = ?, is_manual = ? WHERE id = ?
UpdateInPlace(s, id, pd) ==
    LET price == RowOf(s, id)
        m     == Merge(price, pd)
    IN {IF r.id = id
        THEN [r EXCEPT !.buy = m.buy, !.sell = m.sell,
                       !.spread = OrElse(pd.sell, price.sell)
                                  - OrElse(pd.buy, price.buy),
                       !.marginBuy = m.marginBuy,
                       !.marginSell = m.marginSell,
                       !.isManual = Truthy01(m.isManual)]
        ELSE r : r \in s}

\* GoldPrice.update / CurrencyRate.update: the statements of the handler
update(id, pd) ==
    /\ IF FindById(rows, id) = NULL
       THEN \* throw new Error('... not found')
            /\ \E t \in Advance(now) : now' = t
            /\ resp' = [op |-> "update", id |-> id, ok |-> FALSE,
                        error |-> "not found"]
            /\ UNCHANGED <<rows, nextId, audit>>
       ELSE LET price == RowOf(rows, id) IN
            IF price.until = NULL
            THEN \* still open: redirected to create
                 /\ nextId <= MaxRows
                 /\ \E d \in CreateOutcomes(Db, Merge(price, pd)) :
                      /\ Store(d)
                      /\ resp' = [op |-> "update", id |-> id, ok |-> ~d.threw,
                                  pd |-> pd, inserted |-> nextId,
                                  ret |-> d.ret]
            ELSE \* closed: edited in place
                 /\ \E t \in Advance(now) : \E logOk \in LogOutcomes(audit) :
                      /\ rows' = UpdateInPlace(rows, id, pd)
                      /\ audit' = LogChange(audit, id, "UPDATE", logOk)
                      /\ now' = t
                      /\ resp' = [op |-> "update", id |-> id,
                                  ok |-> ~LogChangeThrows(logOk),
                                  pd |-> pd, inserted |-> NULL,
                                  ret |-> FindById(rows', id)]
                 /\ UNCHANGED nextId
    /\ UNCHANGED <<pc, arg, calc>>

Update(id, pd) ==
    /\ Idle
    /\ update(id, pd)
    /\ UNCHANGED secVars

-----------------------------------------------------------------------------
(* delete *)

\* variant: every record of the instrument removed
DeleteRowInstrument(s, id) == {r \in s : r.inst # RowOf(s, id).inst}

\* DELETE FROM gold_prices WHERE id = ?
DeleteRow(s, id) == {r \in s : r.id # id}

\* GoldPrice.delete / CurrencyRate.delete: the statements of the handler
delete(id) ==
    /\ \E t \in Advance(now) : now' = t
    /\ IF FindById(rows, id) = NULL
       THEN /\ resp' = [op |-> "delete", id |-> id, ok |-> FALSE,
                        error |-> "not found"]
            /\ UNCHANGED <<rows, audit>>
       ELSE /\ \E logOk \in LogOutcomes(audit) :
                 /\ audit' = LogChange(audit, id, "DELETE", logOk)
                 /\ resp' = [op |-> "delete", id |-> id,
                             ok |-> ~LogChangeThrows(logOk)]
            /\ rows' = DeleteRow(rows, id)
    /\ UNCHANGED <<nextId, pc, arg, calc>>

Delete(id) ==
    /\ Idle
    /\ delete(id)
    /\ UNCHANGED secVars

-----------------------------------------------------------------------------
(* getCurrentPrice / getCurrentRate *)

GetCurrent(i) ==
    /\ Idle
    /\ \E t \in Advance(now) :
         LET c == CurrentCandidates(rows, i, t)
         IN /\ now' = t
            /\ \E id \in (IF c = {} THEN {NULL} ELSE {r.id : r \in c}) :
                 resp' = [op |-> "getCurrent", inst |-> i, ret |-> id,
                          after |-> IF resp.op = "create" /\ resp.ok
                                       /\ resp.inst = i
                                    THEN resp.inserted ELSE NULL]
    /\ UNCHANGED <<rows, nextId, audit, pc, arg, calc>>
    /\ UNCHANGED secVars

-----------------------------------------------------------------------------
(* autoUpdate (gold) *)

AutoBases == {1000}      \* basePrice24k, in 1 / RateScale

\* variant: Math.floor in place of Math.round
AutoDataFloor(g, base) ==
    Data(g,
         (base * Purity(g) * (MarginScale - 2)) \div (PurityScale * MarginScale),
         (base * Purity(g) * (MarginScale + 2)) \div (PurityScale * MarginScale),
         2, 2, 0)

\* buyPrice / sellPrice of one gold type:
\* Math.round(base * purity * (1 -+ 0.02) * 100) / 100
AutoData(g, base) ==
    Data(g,
         RoundDiv(base * Purity(g) * (MarginScale - 2), PurityScale * MarginScale),
         RoundDiv(base * Purity(g) * (MarginScale + 2), PurityScale * MarginScale),
         2, 2, 0)

\* for (const goldType of goldTypes) { ... await GoldPrice.create(...) }
RECURSIVE AutoOutcomes(_, _, _)
AutoOutcomes(d, base, k) ==
    IF k > Len(GoldTypes) THEN {d}
    ELSE UNION {AutoOutcomes(e, base, k + 1) :
                    e \in CreateOutcomes(d, AutoData(GoldTypes[k], base))}

\* GoldController.autoUpdatePrices: the statements of the handler
autoUpdatePrices(base) ==
    /\ IF base = UNDEF \/ base = 0 \/ base = NAN \/ base <= 0
       THEN /\ resp' = Rejected("autoUpdate", NULL, 400, "INVALID_BASE_PRICE")
            /\ UNCHANGED <<rows, nextId, audit, now>>
       ELSE /\ nextId <= MaxRows        \* the batch starts while ids are left
            /\ \E d \in AutoOutcomes(Db, base, 1) :
                 /\ Store(d)
                 /\ resp' = [op |-> "autoUpdate", ok |-> TRUE, base |-> base,
                             first |-> nextId]
    /\ UNCHANGED <<pc, arg, calc>>

AutoUpdate(base) ==
    /\ Idle
    /\ autoUpdatePrices(base)
    /\ UNCHANGED secVars

-----------------------------------------------------------------------------
(* bulkUpdate (currency controller) *)

Missing == Data("USD", UNDEF, 100, 0, 0, 0)     \* no buyRate

\* req.body.rates: arrays of at most MaxBulk elements, cut from BulkBody
BulkBody ==
    { <<Data("SAR", 375, 380, 0, UNDEF, 1), Missing>>,
      <<Missing, Data("USD", 100, 100, 2, 100, 0)>>,
      <<Data("USD", 100, 100, 0, 0, 1), Data("USD", 100, 100, 2, 100, 0)>>,
      <<Data("USD", 100, 100, 0, 0, 1), Missing,
        Data("USD", 100, 100, 2, 100, 0)>> }

BulkInputs == {b \in BulkBody : Len(b) <= MaxBulk}

\* outcomes of the loop from element k on; ok / bad count the elements
\* pushed to updatedRates / errors
RECURSIVE BulkOutcomes(_, _, _)
BulkOutcomes(b, rates, k) ==
    IF k > Len(rates) THEN {b}
    ELSE IF rates[k].buy = UNDEF \/ rates[k].sell = UNDEF
    THEN BulkOutcomes([b EXCEPT !.bad = @ + 1], rates, k + 1)
    ELSE UNION {BulkOutcomes(
                    \* rate.toJSON() throws on null and lands in errors
                    IF e.ret = NULL
                    THEN [d |-> e, ok |-> b.ok, bad |-> b.bad + 1]
                    ELSE [d |-> e, ok |-> b.ok + 1, bad |-> b.bad],
                    rates, k + 1) :
                e \in CreateOutcomes(b.d,
                        Data(rates[k].inst, rates[k].buy, rates[k].sell,
                             OrElse(rates[k].marginBuy, 0),
                             OrElse(rates[k].marginSell, 0),
                             OrElse(rates[k].isManual, 0)))}

Creating(rates) ==
    Cardinality({k \in 1..Len(rates) :
                    rates[k].buy # UNDEF /\ rates[k].sell # UNDEF})

\* CurrencyController.bulkUpdate: the statements of the handler
bulkUpdate(rates) ==
    /\ IF Len(rates) = 0
       THEN /\ resp' = Rejected("bulkUpdate", NULL, 400, "MISSING_RATES")
            /\ UNCHANGED <<rows, nextId, audit, now>>
       ELSE /\ nextId + Creating(rates) - 1 <= MaxRows
            /\ \E b \in BulkOutcomes([d |-> Db, ok |-> 0, bad |-> 0],
                                     rates, 1) :
                 /\ Store(b.d)
                 /\ resp' = [op |-> "bulkUpdate", ok |-> TRUE,
                             rates |-> rates, first |-> nextId,
                             totalProcessed |-> Len(rates),
                             successCount |-> b.ok, errorCount |-> b.bad]
    /\ UNCHANGED <<pc, arg, calc>>

BulkUpdate(rates) ==
    /\ Idle
    /\ bulkUpdate(rates)
    /\ UNCHANGED secVars

-----------------------------------------------------------------------------
(* createPrice, updatePrice, deletePrice: the controllers in front of the
   models (GoldController, CurrencyController) *)

\* isNaN(x) || x <= 0
InvalidPrice(x) == x = NAN \/ x <= 0

\* the test createPrice / createRate makes of buyPrice and sellPrice
InvalidPrices(body) == InvalidPrice(body.buy) \/ InvalidPrice(body.sell)

\* createPrice / createRate
createPrice(body) ==
    IF body.inst = "" \/ body.buy = UNDEF \/ body.sell = UNDEF
    THEN /\ resp' = Rejected("createPrice", NULL, 400, "MISSING_FIELDS")
         /\ UNCHANGED <<rows, nextId, audit, now, pc, arg, calc>>
    ELSE IF InvalidPrices(body)
    THEN /\ resp' = Rejected("createPrice", NULL, 400, "INVALID_PRICES")
         /\ UNCHANGED <<rows, nextId, audit, now, pc, arg, calc>>
    ELSE create(Data(body.inst, body.buy, body.sell,
                     IfDefined(body.marginBuy, 0),
                     IfDefined(body.marginSell, 0),
                     IF body.isManual = 1 THEN 1 ELSE 0))

CreatePrice(body) ==
    /\ Idle
    /\ createPrice(body)
    /\ UNCHANGED secVars

\* variant: the controller hands every id to the model
updatePriceUnchecked(id, body) == update(id, body)

\* updatePrice / updateRate: findById, then the fields the body defines
updatePrice(id, body) ==
    IF FindById(rows, id) = NULL
    THEN /\ resp' = Rejected("updatePrice", id, 404, "NOT_FOUND")
         /\ UNCHANGED <<rows, nextId, audit, now, pc, arg, calc>>
    ELSE update(id, body)

UpdatePrice(id, body) ==
    /\ Idle
    /\ updatePrice(id, body)
    /\ UNCHANGED secVars

\* deletePrice / deleteRate
deletePrice(id) ==
    IF FindById(rows, id) = NULL
    THEN /\ resp' = Rejected("deletePrice", id, 404, "NOT_FOUND")
         /\ UNCHANGED <<rows, nextId, audit, now, pc, arg, calc>>
    ELSE delete(id)

DeletePrice(id) ==
    /\ Idle
    /\ deletePrice(id)
    /\ UNCHANGED secVars

\* bodies of POST /prices: accepted; zero, negative and no number as a
\* price; sellPrice missing
CreateBodies ==
    { Data("USD", 100, 100, UNDEF, UNDEF, 1),
      Data("USD", 0, 100, UNDEF, UNDEF, 1),
      Data("USD", 100, 0 - 500, UNDEF, UNDEF, 1),
      Data("USD", NAN, 100, UNDEF, UNDEF, 1),
      Data("USD", 100, UNDEF, UNDEF, UNDEF, 1) }

\* bodies of PUT /prices/:id after parseFloat: a new sell price; a negative
\* buy price; a buy price that is no number
UpdateBodies ==
    { Data(NULL, UNDEF, 380, UNDEF, UNDEF, UNDEF),
      Data(NULL, 0 - 500, UNDEF, UNDEF, UNDEF, UNDEF),
      Data(NULL, NAN, UNDEF, UNDEF, UNDEF, UNDEF) }

\* rates of POST /bulk-update: one accepted element; one with buyRate '0'
BulkBodies ==
    { << >>,
      << Data("USD", 100, 100, 0, 0, 1) >>,
      << Data("USD", 0, 100, 0, 0, 1) >> }

\* basePrice24k of POST /auto-update
BaseBodies == {1000, 0, 0 - 500, NAN}

-----------------------------------------------------------------------------
(* Margin / rate calculator *)

\* calculateMargin: rate * margin, in 1 / (RateScale * MarginScale)
CalculateMargin(r, type) ==
    LET rate   == IF type = "buy" THEN r.buy ELSE r.sell
        margin == IF type = "buy" THEN r.marginBuy ELSE r.marginSell
    IN rate * margin

\* variant: the margin added on both sides
GetFinalRateAdds(r, type) ==
    (IF type = "buy" THEN r.buy ELSE r.sell) * MarginScale
        + CalculateMargin(r, type)

\* getFinalPrice / getFinalRate, in 1 / (RateScale * MarginScale)
GetFinalRate(r, type) ==
    LET rate   == IF type = "buy" THEN r.buy ELSE r.sell
        margin == CalculateMargin(r, type)
    IN IF type = "buy" THEN rate * MarginScale + margin
                       ELSE rate * MarginScale - margin

(* JavaScript numbers: a non-negative fraction n / d in lowest terms,     *)
(* Infinity or NaN                                                         *)
RECURSIVE Gcd(_, _)
Gcd(a, b) == IF b = 0 THEN a ELSE Gcd(b, a % b)

Num(n, d) == LET g == Gcd(n, d) IN [k |-> "fin", n |-> n \div g, d |-> d \div g]
Infinity  == [k |-> "inf", n |-> 0, d |-> 0]
NaN       == [k |-> "nan", n |-> 0, d |-> 0]

\* a * b
JsMul(a, b) ==
    IF a.k = "nan" \/ b.k = "nan" THEN NaN
    ELSE IF a.k = "inf" \/ b.k = "inf"
    THEN (IF (a.k = "fin" /\ a.n = 0) \/ (b.k = "fin" /\ b.n = 0)
          THEN NaN ELSE Infinity)
    ELSE LET g1 == Gcd(a.n, b.d)
             g2 == Gcd(b.n, a.d)
         IN IF a.n = 0 \/ b.n = 0 THEN Num(0, 1)
            ELSE Num((a.n \div g1) * (b.n \div g2), (a.d \div g2) * (b.d \div g1))

\* a / b
JsDiv(a, b) ==
    IF a.k = "nan" \/ b.k = "nan" THEN NaN
    ELSE IF b.k = "inf" THEN (IF a.k = "inf" THEN NaN ELSE Num(0, 1))
    ELSE IF b.n = 0 THEN (IF a.k = "fin" /\ a.n = 0 THEN NaN ELSE Infinity)
    ELSE IF a.k = "inf" THEN Infinity
    ELSE JsMul(a, [k |-> "fin", n |-> b.d, d |-> b.n])

INF == -2         \* Infinity in a response

\* variant: Math.floor
Round4Floor(x) ==
    IF x.k = "nan" THEN NAN
    ELSE IF x.k = "inf" THEN INF
    ELSE (x.n \div x.d) * Precision4 + (((x.n % x.d) * Precision4) \div x.d)

\* Math.round(x * 10000) / 10000, in 1 / Precision4
Round4(x) ==
    IF x.k = "nan" THEN NAN
    ELSE IF x.k = "inf" THEN INF
    ELSE (x.n \div x.d) * Precision4 + RoundDiv((x.n % x.d) * Precision4, x.d)

FinalNum(r, type) == Num(GetFinalRate(r, type), RateScale * MarginScale)

\* convertToBase: amount / this.getFinalRate(type)
ConvertToBase(r, amount, type) == JsDiv(amount, FinalNum(r, type))

\* convertFromBase: amount * this.getFinalRate(type)
ConvertFromBase(r, amount, type) == JsMul(amount, FinalNum(r, type))

\* CurrencyRate.convert on the rows both lookups returned
ConvertModel(amount, fromRate, toRate, type) ==
    LET baseAmount == ConvertToBase(fromRate, Num(amount, 1), type)
        result     == ConvertFromBase(toRate, baseAmount, type)
    IN [result |-> Round4(result),
        rate   |-> Round4(JsDiv(FinalNum(toRate, type),
                                FinalNum(fromRate, type)))]

Amounts == {0, 1, 100}
Types   == {"buy", "sell"}

\* CurrencyController.convert: POST /convert {amount, from, to, type}
Convert(amount, from, to, type) ==
    /\ Idle
    /\ \E t \in Advance(now) :
         /\ now' = t
         /\ IF amount = 0
            THEN resp' = [op |-> "convert", status |-> 400,
                          code |-> "MISSING_FIELDS"]
            ELSE LET f == CurrentCandidates(rows, from, t)
                     g == CurrentCandidates(rows, to, t)
                 IN IF f = {} \/ g = {}
                    THEN \* throw new Error('Currency rate not found')
                         resp' = [op |-> "convert", status |-> 500,
                                  code |-> "CONVERSION_ERROR"]
                    ELSE \E fromRate \in f : \E toRate \in g :
                           LET c == ConvertModel(amount, fromRate, toRate, type)
                           IN resp' = [op |-> "convert", status |-> 200,
                                       code |-> "OK",
                                       amount |-> amount, type |-> type,
                                       fromId |-> fromRate.id,
                                       toId |-> toRate.id,
                                       result |-> c.result, rate |-> c.rate]
    /\ UNCHANGED <<rows, nextId, audit, pc, arg, calc>>
    /\ UNCHANGED secVars

\* inputs of the calculator on its own
RawRates == {0, 1, 375, 10000}
Margins  == {0, 2, 100, 150}

ApplyFinalRate(b, sl, mb, ms, type) ==
    /\ calc' = [fn |-> "finalRate", type |-> type, buy |-> b, sell |-> sl,
                marginBuy |-> mb, marginSell |-> ms,
                out |-> GetFinalRate(Data(NULL, b, sl, mb, ms, 0), type)]
    /\ UNCHANGED <<rows, nextId, now, audit, resp, pc, arg>>
    /\ UNCHANGED secVars

-----------------------------------------------------------------------------
(* create, one database statement at a time *)

InFlight == {p \in Procs : pc[p] = "insert"}

\* await db.run(UPDATE ... SET effective_until = datetime('now') ...)
CreateClose(p, data) ==
    /\ pc[p] = "idle"
    /\ nextId + Cardinality(InFlight) <= MaxRows
    /\ \E t \in Advance(now) :
         /\ now' = t
         /\ rows' = CloseOpen(rows, data.inst, t)
    /\ pc' = [pc EXCEPT ![p] = "insert"]
    /\ arg' = [arg EXCEPT ![p] =
                 [data |-> data,
                  changes |-> Cardinality(OpenRows(rows, data.inst)),
                  since |-> nextId]]
    /\ resp' = [op |-> "none"]
    /\ UNCHANGED <<nextId, audit, calc>>
    /\ UNCHANGED secVars

\* await db.run(INSERT ...); logChange; findById(result.id)
CreateInsert(p) ==
    /\ pc[p] = "insert"
    /\ \E t \in Advance(now) : \E logOk \in LogOutcomes(audit) :
         LET resultId == RunId(<<>>) IN
         /\ now' = t
         /\ rows' = rows \cup {NewRow(nextId, arg[p].data, t)}
         /\ audit' = LogChange(audit, resultId, "CREATE", logOk)
         /\ resp' = [op |-> "create", inst |-> arg[p].data.inst, ok |-> TRUE,
                     inserted |-> nextId, ret |-> FindById(rows', resultId),
                     since |-> arg[p].since]
    /\ nextId' = nextId + 1
    /\ pc' = [pc EXCEPT ![p] = "idle"]
    /\ arg' = [arg EXCEPT ![p] = NULL]
    /\ UNCHANGED calc
    /\ UNCHANGED secVars

\* the INSERT (or the process) fails: db.run rethrows, create rethrows
CreateInsertFails(p) ==
    /\ pc[p] = "insert"
    /\ \E t \in Advance(now) : now' = t
    /\ resp' = [op |-> "create", inst |-> arg[p].data.inst, ok |-> FALSE,
                changes |-> arg[p].changes]
    /\ pc' = [pc EXCEPT ![p] = "idle"]
    /\ arg' = [arg EXCEPT ![p] = NULL]
    /\ UNCHANGED <<rows, nextId, audit, calc>>
    /\ UNCHANGED secVars

-----------------------------------------------------------------------------
(* Strings and JavaScript values *)

\* a string is the sequence of its character codes
Chr0     == 48                         \* '0'
ChrMinus == 45                         \* '-'
ChrPlus  == 43                         \* '+'
ChrSpace == 32                         \* ' '
ChrComma == 44                         \* ','
ChrColon == 58                         \* ':'
StrTrue  == <<116, 114, 117, 101>>     \* 'true'
StrFalse == <<102, 97, 108, 115, 101>> \* 'false'
StrEmpty == <<>>

JsNull     == [t |-> "null"]
JsNumber(n) == [t |-> "number", v |-> n]
JsBool(b)   == [t |-> "boolean", v |-> b]
JsString(s) == [t |-> "string", v |-> s]

IsDigit(c) == c >= Chr0 /\ c <= Chr0 + 9

RECURSIVE DigitsOf(_)
DigitsOf(n) ==
    IF n < 10 THEN <<Chr0 + n>>
    ELSE Append(DigitsOf(n \div 10), Chr0 + (n % 10))

\* String(value), value ? a : b
JsToString(x) ==
    CASE x.t = "number"  -> IF x.v < 0 THEN <<ChrMinus>> \o DigitsOf(-x.v)
                            ELSE DigitsOf(x.v)
      [] x.t = "boolean" -> IF x.v THEN StrTrue ELSE StrFalse
      [] x.t = "string"  -> x.v
      [] OTHER           -> <<110, 117, 108, 108>>

Truthy(x) ==
    CASE x.t = "number"  -> x.v # 0
      [] x.t = "boolean" -> x.v
      [] x.t = "string"  -> x.v # StrEmpty
      [] OTHER           -> FALSE

RECURSIVE SkipSpaces(_)
SkipSpaces(s) ==
    IF s # <<>> /\ Head(s) = ChrSpace THEN SkipSpaces(Tail(s)) ELSE s

RECURSIVE DigitPrefix(_, _)
DigitPrefix(s, acc) ==
    IF s = <<>> \/ ~IsDigit(Head(s)) THEN acc
    ELSE DigitPrefix(Tail(s), 10 * acc + (Head(s) - Chr0))

\* parseInt(s, 10) || 0: leading blanks, a sign, the longest run of digits;
\* NaN (no digit) and 0 both give 0
ParseIntOrZero(s) ==
    LET t == SkipSpaces(s)
        signed == t # <<>> /\ Head(t) \in {ChrMinus, ChrPlus}
        u == IF signed THEN Tail(t) ELSE t
    IN IF u = <<>> \/ ~IsDigit(Head(u)) THEN 0
       ELSE IF signed /\ Head(t) = ChrMinus THEN 0 - DigitPrefix(u, 0)
       ELSE DigitPrefix(u, 0)

-----------------------------------------------------------------------------
(* StoreSettings *)

SettingKeys == {"max_login_attempts", "session_timeout", "market_open_time",
                "market_close_time", "market_days"}

SettingRow(key, value, type) == [key |-> key, value |-> value, type |-> type]

\* SELECT * FROM store_settings WHERE setting_key = ? (setting_key is UNIQUE)
SettingRows(s, key) == {r \in s : r.key = key}

\* variant: the stored text handed back whatever the type tag
GetTypedValueRaw(row) == JsString(row.value)

\* getTypedValue on the constructed object (a NULL setting_value reads as
\* ''); the decimal and json tags are not modelled
GetTypedValue(row) ==
    CASE row.type = "integer" -> JsNumber(ParseIntOrZero(row.value))
      [] row.type = "boolean" -> JsBool(row.value = <<Chr0 + 1>>
                                        \/ row.value = StrTrue)
      [] OTHER                -> JsString(row.value)

\* set: the text written to setting_value
Serialize(value, type) ==
    IF type = "boolean" THEN (IF Truthy(value) THEN <<Chr0 + 1>> ELSE <<Chr0>>)
    ELSE JsToString(value)

SettingTypes == {"string", "integer", "boolean"}

\* values handed to set
SettingValues ==
    {JsNumber(7), JsNumber(0), JsNumber(0 - 12), JsNumber(1000),
     JsBool(TRUE), JsBool(FALSE), JsString(<<Chr0 + 7, 120>>)}

\* StoreSettings.get(key, defaultValue = null)
SettingGet(key) ==
    /\ Idle
    /\ resp' = [op |-> "get", key |-> key,
                ret |-> IF SettingRows(settings, key) = {} THEN JsNull
                        ELSE GetTypedValue(
                                 CHOOSE r \in SettingRows(settings, key) : TRUE)]
    /\ UNCHANGED <<rows, nextId, now, audit, pc, arg, calc, settings,
                   rateLimitStore, loginAttempts, users, session, clock,
                   req, ipFailed, sessions, hits>>

\* StoreSettings.set(key, value, type): UPDATE or INSERT by key, logChange
SettingSet(key, value, type) ==
    /\ Idle
    /\ settings' = (settings \ SettingRows(settings, key))
                      \cup {SettingRow(key, Serialize(value, type), type)}
    /\ \E logOk \in LogOutcomes(audit) :
         /\ audit' = LogChange(audit, key, "SET", logOk)
         /\ resp' = [op |-> "set", key |-> key, value |-> value,
                     type |-> type, ok |-> ~LogChangeThrows(logOk)]
    /\ UNCHANGED <<rows, nextId, now, pc, arg, calc,
                   rateLimitStore, loginAttempts, users, session, clock,
                   req, ipFailed, sessions, hits>>

\* StoreSettings.delete(key): getSetting, logChange, DELETE
SettingDelete(key) ==
    /\ Idle
    /\ IF SettingRows(settings, key) = {}
       THEN /\ resp' = [op |-> "deleteSetting", key |-> key, ok |-> FALSE]
            /\ UNCHANGED <<settings, audit>>
       ELSE /\ \E logOk \in LogOutcomes(audit) :
                 /\ audit' = LogChange(audit, key, "DELETE", logOk)
                 /\ resp' = [op |-> "deleteSetting", key |-> key,
                             ok |-> ~LogChangeThrows(logOk)]
            /\ settings' = settings \ SettingRows(settings, key)
    /\ UNCHANGED <<rows, nextId, now, pc, arg, calc,
                   rateLimitStore, loginAttempts, users, session, clock,
                   req, ipFailed, sessions, hits>>

\* the rows the schema script inserts
SeedSettings ==
    { SettingRow("max_login_attempts", <<53>>, "integer"),
      SettingRow("session_timeout", <<51, 54, 48, 48>>, "integer"),
      SettingRow("market_open_time", <<48, 56, 58, 48, 48>>, "string"),
      SettingRow("market_close_time", <<50, 50, 58, 48, 48>>, "string"),
      SettingRow("market_days",
                 <<49, 44, 50, 44, 51, 44, 52, 44, 53, 44, 54>>, "string") }

-----------------------------------------------------------------------------
(* Market hours (StoreSettings.getMarketSettings, isMarketOpen) *)

\* a < b on strings: by character code, a proper prefix first
RECURSIVE StrLess(_, _)
StrLess(a, b) ==
    IF b = <<>> THEN FALSE
    ELSE IF a = <<>> THEN TRUE
    ELSE IF Head(a) # Head(b) THEN Head(a) < Head(b)
    ELSE StrLess(Tail(a), Tail(b))

\* a <= b, a >= b on strings
StrLessEq(a, b) == a = b \/ StrLess(a, b)
StrGreaterEq(a, b) == StrLessEq(b, a)

\* s.split(','), cur the piece being read
RECURSIVE Split(_, _)
Split(s, cur) ==
    IF s = <<>> THEN <<cur>>
    ELSE IF Head(s) = ChrComma THEN <<cur>> \o Split(Tail(s), <<>>)
    ELSE Split(Tail(s), Append(cur, Head(s)))

JsNaN == 0 - 2

\* Number(s) on the pieces of a day list: blanks skipped, '' is 0, a run of
\* digits its value, anything else NaN
ToNumber(s) ==
    LET t == SkipSpaces(s)
    IN IF t = <<>> THEN 0
       ELSE IF \A i \in 1..Len(t) : IsDigit(t[i]) THEN DigitPrefix(t, 0)
       ELSE JsNaN

\* StoreSettings.get(key, defaultValue) read from the table s
StoreGet(s, key, defaultValue) ==
    IF SettingRows(s, key) = {} THEN defaultValue
    ELSE GetTypedValue(CHOOSE r \in SettingRows(s, key) : TRUE)

\* getMarketSettings: days is market_days.split(',').map(Number), or 1..6
\* when market_days is falsy; split on a value that is no string throws
getMarketSettings(s) ==
    LET openTime  == StoreGet(s, "market_open_time", JsString(StrEmpty))
        closeTime == StoreGet(s, "market_close_time", JsString(StrEmpty))
        days      == StoreGet(s, "market_days", JsString(StrEmpty))
        parts     == Split(days.v, <<>>)
    IN [openTime |-> openTime, closeTime |-> closeTime,
        throws |-> Truthy(days) /\ days.t # "string",
        days |-> IF ~Truthy(days) THEN 1..6
                 ELSE IF days.t # "string" THEN {}
                 ELSE {ToNumber(parts[i]) : i \in 1..Len(parts)}]

\* isMarketOpen at the time of day and the day of the week of the configured
\* zone; the times of the model are stored with the string tag
isMarketOpen(s, currentTime, currentDay) ==
    LET m == getMarketSettings(s)
    IN IF m.throws THEN FALSE
       ELSE IF currentDay \notin m.days THEN FALSE
       ELSE /\ StrGreaterEq(currentTime, m.openTime.v)
            /\ StrLessEq(currentTime, m.closeTime.v)

\* 'HH:MM'
Time(h, m) ==
    <<Chr0 + (h \div 10), Chr0 + (h % 10), ChrColon,
      Chr0 + (m \div 10), Chr0 + (m % 10)>>

\* times of day and days of the week at which the market is asked for
MarketTimes == {Time(7, 59), Time(8, 0), Time(22, 0), Time(22, 1)}
MarketDays  == {0, 1}

\* what the market settings are set to: open, close, the list of days
MarketValues(key) ==
    CASE key = "market_open_time"  -> {JsString(Time(12, 0))}
      [] key = "market_close_time" -> {JsString(Time(12, 0))}
      [] OTHER -> {JsString(<<Chr0, ChrComma, ChrSpace, Chr0 + 6>>),
                   JsString(StrEmpty)}

MarketKeys == {"market_open_time", "market_close_time", "market_days"}

IsMarketOpen(currentTime, currentDay) ==
    /\ Idle
    /\ calc' = [fn |-> "isMarketOpen", time |-> currentTime,
                day |-> currentDay,
                ret |-> isMarketOpen(settings, currentTime, currentDay)]
    /\ UNCHANGED <<rows, nextId, now, audit, resp, pc, arg, settings,
                   rateLimitStore, loginAttempts, users, session, clock,
                   req, ipFailed, sessions, hits>>

-----------------------------------------------------------------------------
(* Security middleware (src/middleware/security.js) *)

\* Durations are scaled: one window of the model stands for the fifteen
\* minutes of the source, the limits of 5 for 2 and of 10 for 3.
WindowMs         == 2000     \* windowMs: 15 * 60 * 1000
LoginMaxRequests == 2        \* maxRequests: 5 on POST /login
AutoMaxRequests  == 3        \* maxRequests: 10 on POST /auto-update
MaxLoginAttempts == 2        \* MAX_LOGIN_ATTEMPTS: 5
LockoutDuration  == 2        \* LOCKOUT_DURATION: 900 (added to nothing: the
                             \* middleware only copies it to securityContext)
AccountLockMs    == 2000     \* 15 * 60 * 1000 in incrementLoginAttempts

\* Date.now()
DateNow(t) == t * 1000

\* the server clock when the next request arrives
Tick(t) == IF t < MaxClock THEN {t, t + 1} ELSE {t}

\* Math.ceil(a / b) for a >= 0, b > 0
CeilDiv(a, b) == (a + b - 1) \div b

\* what a stage does with the request: next(), or a response
PassOn == [next |-> TRUE, status |-> 0, code |-> "", retryAfter |-> 0]
Respond(status, code, retryAfter) ==
    [next |-> FALSE, status |-> status, code |-> code,
     retryAfter |-> retryAfter]

Stage(w, q, out) == [w |-> w, q |-> q, out |-> out]

MapGet(m, k) == m[k]
MapHas(m, k) == k \in DOMAIN m
MapSet(m, k, v) == [x \in DOMAIN m \cup {k} |-> IF x = k THEN v ELSE m[x]]
MapDelete(m, k) == [x \in DOMAIN m \ {k} |-> m[x]]

\* logSecurityEvent: console.log; the INSERT INTO audit_log is commented out
logSecurityEvent(log, eventType) == log

\* rateLimiter(options): an exception is caught and the request passed on
rateLimiter(w, q, maxRequests, windowMs, thrown) ==
    LET t  == DateNow(w.clock)
        cd == IF MapHas(w.rl, q.client) THEN MapGet(w.rl, q.client)
              ELSE [requests |-> <<>>, blocked |-> FALSE, blockedUntil |-> NULL]
        pruned == SelectSeq(cd.requests, LAMBDA ts : t - ts < windowMs)
    IN IF thrown THEN Stage(w, q, PassOn)
       ELSE IF cd.blocked /\ cd.blockedUntil > t
       THEN Stage(w, q, Respond(429, "RATE_LIMIT_EXCEEDED",
                                CeilDiv(cd.blockedUntil - t, 1000)))
       ELSE IF Len(pruned) >= maxRequests
       THEN Stage([w EXCEPT !.rl = MapSet(@, q.client,
                        [requests |-> pruned, blocked |-> TRUE,
                         blockedUntil |-> t + windowMs])],
                  q, Respond(429, "RATE_LIMIT_EXCEEDED",
                             CeilDiv(windowMs, 1000)))
       ELSE Stage([w EXCEPT !.rl = MapSet(@, q.client,
                        [requests |-> Append(pruned, t), blocked |-> FALSE,
                         blockedUntil |-> NULL])],
                  q, PassOn)

\* bruteForceProtection(options): reads loginAttempts, which nothing writes
bruteForceProtection(w, q, maxAttempts, thrown) ==
    LET t == DateNow(w.clock)
        has == MapHas(w.la, q.client)
        attempts == MapGet(w.la, q.client)
    IN IF thrown THEN Stage(w, q, PassOn)
       ELSE IF has /\ attempts.count >= maxAttempts /\ attempts.lockedUntil > t
       THEN Stage(w, q, Respond(423, "ACCOUNT_LOCKED",
                                CeilDiv(attempts.lockedUntil - t, 1000)))
       ELSE IF has /\ attempts.lockedUntil # NULL /\ attempts.lockedUntil <= t
       THEN Stage([w EXCEPT !.la = MapDelete(@, q.client)], q, PassOn)
       ELSE Stage(w, q, PassOn)

SafeMethods == {"GET", "HEAD", "OPTIONS"}

\* req.headers['x-csrf-token'] || req.body?._csrf || req.query?._csrf
SuppliedToken(q) ==
    IF q.header # NoToken THEN q.header
    ELSE IF q.body # NoToken THEN q.body ELSE q.query

\* variant: letter case ignored, as if both sides were lowered first
csrfProtectionAnyCase(w, q, thrown) ==
    LET csrfToken == SuppliedToken(q)
        lower(x) == IF x = "T1" THEN "t1" ELSE x
    IN IF thrown THEN Stage(w, q, Respond(500, "SECURITY_ERROR", 0))
       ELSE IF q.method \in SafeMethods THEN Stage(w, q, PassOn)
       ELSE IF csrfToken = NoToken
       THEN Stage(w, q, Respond(403, "CSRF_MISSING", 0))
       ELSE IF q.session.csrfToken = NoToken
               \/ lower(csrfToken) # lower(q.session.csrfToken)
       THEN Stage([w EXCEPT !.audit = logSecurityEvent(@, "INVALID_CSRF")],
                  q, Respond(403, "CSRF_INVALID", 0))
       ELSE Stage(w, q, PassOn)

\* csrfProtection
csrfProtection(w, q, thrown) ==
    LET csrfToken == SuppliedToken(q)
    IN IF thrown THEN Stage(w, q, Respond(500, "SECURITY_ERROR", 0))
       ELSE IF q.method \in SafeMethods THEN Stage(w, q, PassOn)
       ELSE IF csrfToken = NoToken
       THEN Stage(w, q, Respond(403, "CSRF_MISSING", 0))
       ELSE IF q.session.csrfToken = NoToken
               \/ csrfToken # q.session.csrfToken
       THEN Stage([w EXCEPT !.audit = logSecurityEvent(@, "INVALID_CSRF")],
                  q, Respond(403, "CSRF_INVALID", 0))
       ELSE Stage(w, q, PassOn)

\* xssProtection: rewrites the strings of query, body and params; the
\* tokens of the model hold no character it escapes
xssProtection(w, q, thrown) ==
    IF thrown THEN Stage(w, q, Respond(500, "XSS_ERROR", 0))
    ELSE Stage(w, q, PassOn)

\* validateSession: the lookup in the sessions table is commented out
validateSession(w, q, thrown) ==
    IF thrown THEN Stage(w, q, Respond(500, "SESSION_ERROR", 0))
    ELSE IF q.session.userId = NULL
    THEN Stage(w, q, Respond(401, "SESSION_INVALID", 0))
    ELSE Stage(w, [q EXCEPT !.user = q.session.userId], PassOn)

\* requireRole(allowedRoles)
requireRole(w, q, allowedRoles, thrown) ==
    LET userRole == IF q.session.role = NoRole THEN "user" ELSE q.session.role
    IN IF thrown THEN Stage(w, q, Respond(500, "ROLE_ERROR", 0))
       ELSE IF q.user = NULL THEN Stage(w, q, Respond(401, "AUTH_REQUIRED", 0))
       ELSE IF userRole \notin allowedRoles
       THEN Stage([w EXCEPT !.audit =
                       logSecurityEvent(@, "UNAUTHORIZED_ACCESS")],
                  q, Respond(403, "INSUFFICIENT_PERMISSIONS", 0))
       ELSE Stage(w, q, PassOn)

\* validateInput(schema): q.valid says whether the payload meets the schema
validateInput(w, q, thrown) ==
    IF thrown THEN Stage(w, q, Respond(500, "VALIDATION_ERROR", 0))
    ELSE IF ~q.valid THEN Stage(w, q, Respond(400, "VALIDATION_ERROR", 0))
    ELSE Stage(w, q, PassOn)

-----------------------------------------------------------------------------
(* Requests and the middleware of a route *)

Request(c, method, header, body, query, sess, user, valid, throws) ==
    [client |-> c, method |-> method, header |-> header, body |-> body,
     query |-> query, session |-> sess, user |-> user, valid |-> valid,
     throws |-> throws]

Mw(kind, max, roles) == [kind |-> kind, max |-> max, roles |-> roles]

MwKinds == {"rateLimiter", "bruteForceProtection", "csrfProtection",
            "xssProtection", "validateSession", "requireRole",
            "validateInput"}

StatefulMw == {"rateLimiter", "bruteForceProtection"}

ApplyMw(m, w, q, thrown) ==
    CASE m.kind = "rateLimiter" -> rateLimiter(w, q, m.max, WindowMs, thrown)
      [] m.kind = "bruteForceProtection" ->
             bruteForceProtection(w, q, MaxLoginAttempts, thrown)
      [] m.kind = "csrfProtection"  -> csrfProtection(w, q, thrown)
      [] m.kind = "xssProtection"   -> xssProtection(w, q, thrown)
      [] m.kind = "validateSession" -> validateSession(w, q, thrown)
      [] m.kind = "requireRole"     -> requireRole(w, q, m.roles, thrown)
      [] OTHER                      -> validateInput(w, q, thrown)

\* the in-memory maps and the audit log as one value, at server time t
World(t) == [rl |-> rateLimitStore, la |-> loginAttempts, audit |-> audit,
             clock |-> t]

\* the stages from position k on; at is the stage that answered, 0 when
\* the last stage called next()
RECURSIVE RunChain(_, _, _, _)
RunChain(chain, k, w, q) ==
    IF k > Len(chain) THEN [w |-> w, q |-> q, out |-> PassOn, at |-> 0]
    ELSE LET s == ApplyMw(chain[k], w, q, q.throws = k)
         IN IF s.out.next THEN RunChain(chain, k + 1, s.w, s.q)
            ELSE [w |-> s.w, q |-> s.q, out |-> s.out, at |-> k]

\* sessions a request may arrive with
SessionInputs ==
    { NoSession,
      [userId |-> 1, role |-> "admin", csrfToken |-> "t1"],
      [userId |-> 3, role |-> "user", csrfToken |-> "t1"],
      [userId |-> 2, role |-> NoRole, csrfToken |-> NoToken] }

\* header, body and query token of a request
TokenInputs ==
    { <<NoToken, NoToken, NoToken>>, <<"t1", NoToken, NoToken>>,
      <<NoToken, "t1", NoToken>>, <<NoToken, NoToken, "t1">>,
      <<"T1", NoToken, NoToken>>, <<"t2", "t1", NoToken>> }

\* one middleware applied to one request (throws = 1: it raises)
MwInputs(kind) ==
    CASE kind \in {"rateLimiter", "bruteForceProtection"} ->
           {Request(c, "POST", NoToken, NoToken, NoToken, NoSession, NULL,
                    TRUE, th) : c \in Clients, th \in {0, 1}}
      [] kind = "csrfProtection" ->
           {Request("ip1", m, tk[1], tk[2], tk[3], se, NULL, TRUE, th) :
                m \in {"GET", "POST", "DELETE"}, tk \in TokenInputs,
                se \in {s \in SessionInputs : s.role # "user"},
                th \in {0, 1}}
      [] kind = "requireRole" ->
           {Request("ip1", "POST", NoToken, NoToken, NoToken, se, u, TRUE,
                    th) :
                se \in SessionInputs, u \in {NULL, 1}, th \in {0, 1}}
      [] OTHER ->
           {Request("ip1", "POST", NoToken, NoToken, NoToken, se, NULL, v,
                    th) :
                se \in SessionInputs, v \in BOOLEAN, th \in {0, 1}}

MwConfigs ==
    {Mw(k, LoginMaxRequests, {"admin", "manager"}) : k \in MwKinds}
    \cup {Mw("requireRole", 0, {"admin"})}

Middleware(m, q) ==
    /\ Idle
    /\ \E t \in Tick(clock) :
         LET s == ApplyMw(m, World(t), q, q.throws = 1)
         IN /\ clock' = t
            /\ rateLimitStore' = s.w.rl
            /\ loginAttempts' = s.w.la
            /\ audit' = s.w.audit
            /\ req' = [route |-> m.kind, roles |-> m.roles, q |-> q,
                       user |-> s.q.user]
            /\ resp' = [op |-> "middleware", out |-> s.out]
    /\ UNCHANGED <<rows, nextId, now, pc, arg, calc, settings, users, session,
                   ipFailed, sessions, hits>>

-----------------------------------------------------------------------------
(* POST /api/auth/login (src/routes/auth.js, AuthController, User) *)

AccountMaxAttempts == 2      \* maxAttempts: 5 in incrementLoginAttempts

LoginRequest(c, username, password, throws) ==
    [client |-> c, username |-> username, password |-> password,
     throws |-> throws]

\* username and password of a login: right, wrong, unknown user, missing
Credentials ==
    { <<"admin", "good">>, <<"admin", "bad">>, <<"ghost", "good">>,
      <<"", "good">>, <<"admin", "">> }

\* logins of one client
LoginInputs ==
    {LoginRequest("ip1", cr[1], cr[2], 0) : cr \in Credentials}

\* rateLimiter({windowMs, maxRequests: 5}), bruteForceProtection()
LoginChain ==
    << Mw("rateLimiter", LoginMaxRequests, {}),
       Mw("bruteForceProtection", 0, {}) >>

\* Security.verifyPassword against the stored hash
verifyPassword(password, hash) == password = hash

\* User.incrementLoginAttempts
incrementLoginAttempts(us, name, t) ==
    LET attempts == us[name].attempts + 1
    IN [us EXCEPT ![name].attempts = attempts,
                  ![name].lockedUntil =
                      IF attempts >= AccountMaxAttempts
                      THEN t + AccountLockMs ELSE NULL]

\* User.resetLoginAttempts
resetLoginAttempts(us, name) ==
    [us EXCEPT ![name].attempts = 0, ![name].lockedUntil = NULL]

\* User.login: the user's name, or the error it throws
UserLogin(us, username, password, t) ==
    IF username \notin DOMAIN us
    THEN [users |-> us, user |-> "", error |-> "Invalid credentials"]
    ELSE IF ~us[username].isActive
    THEN [users |-> us, user |-> "", error |-> "Account is disabled"]
    ELSE IF us[username].lockedUntil # NULL /\ us[username].lockedUntil > t
    THEN [users |-> us, user |-> "", error |-> "Account locked"]
    ELSE IF ~verifyPassword(password, us[username].password)
    THEN [users |-> incrementLoginAttempts(us, username, t), user |-> "",
          error |-> "Invalid credentials"]
    ELSE [users |-> resetLoginAttempts(us, username), user |-> username,
          error |-> ""]

\* AuthController.login: the answer, the users table and the session
\* fields it sets; csrfToken is the token Security.generateCSRFToken made
AuthLogin(us, q, t, csrfToken) ==
    LET l == UserLogin(us, q.username, q.password, t)
    IN IF q.username = "" \/ q.password = ""
       THEN [users |-> us, session |-> NoSession,
             out |-> Respond(400, "MISSING_CREDENTIALS", 0)]
       ELSE IF l.error # ""
       THEN [users |-> l.users, session |-> NoSession,
             out |-> Respond(401, "LOGIN_FAILED", 0)]
       ELSE [users |-> l.users,
             session |-> [userId |-> us[l.user].id, role |-> us[l.user].role,
                          csrfToken |-> csrfToken],
             out |-> Respond(200, "", 0)]

\* Security.generateCSRFToken()
LoginTokens == {"t1"}

\* the failed logins of a client since its last lockout ran out, by time
FailedLogins(f, t, failed) ==
    LET expired == /\ Len(f) >= MaxLoginAttempts
                   /\ t >= f[Len(f)] + LockoutDuration * 1000
        base == IF expired THEN <<>> ELSE f
    IN IF failed /\ Len(base) < MaxLoginAttempts THEN Append(base, t)
       ELSE base

Login(q) ==
    /\ Idle
    /\ \E t \in Tick(clock) : \E tok \in LoginTokens :
         LET r   == RunChain(LoginChain, 1, World(t), q)
             l   == AuthLogin(users, q, DateNow(t), tok)
             ran == r.out.next
             out == IF ran THEN l.out ELSE r.out
         IN /\ clock' = t
            /\ rateLimitStore' = r.w.rl
            /\ loginAttempts' = r.w.la
            /\ audit' = r.w.audit
            /\ users' = IF ran THEN l.users ELSE users
            /\ session' = IF ran /\ out.status = 200
                          THEN [session EXCEPT ![q.client] = l.session]
                          ELSE session
            /\ sessions' = IF ran /\ out.status = 200
                           THEN MapSet(sessions, q.client,
                                       [userId |-> l.session.userId,
                                        isValid |-> TRUE])
                           ELSE sessions
            /\ ipFailed' = [ipFailed EXCEPT ![q.client] =
                              FailedLogins(@, DateNow(t),
                                           ran /\ out.status = 401)]
            /\ req' = [route |-> "login", roles |-> {}, q |-> q,
                       user |-> NULL]
            /\ resp' = [op |-> "login", out |-> out]
    /\ UNCHANGED <<rows, nextId, now, pc, arg, calc, settings, hits>>

-----------------------------------------------------------------------------
(* The two routes behind a rateLimiter: POST /login and POST /auto-update *)

LimitedRoutes == {"login", "autoUpdate"}

\* maxRequests the route hands to rateLimiter
RouteLimit(route) ==
    IF route = "login" THEN LoginMaxRequests ELSE AutoMaxRequests

\* the rateLimiter stage of a limited route on a request of client c; every
\* instance reads and writes the one rateLimitStore, under req.ip
Limited(route, c) ==
    /\ Idle
    /\ \E t \in Tick(clock) :
         LET q == Request(c, "POST", NoToken, NoToken, NoToken, NoSession,
                          NULL, TRUE, 0)
             r == rateLimiter(World(t), q, RouteLimit(route), WindowMs, FALSE)
         IN /\ clock' = t
            /\ rateLimitStore' = r.w.rl
            /\ audit' = r.w.audit
            /\ req' = [route |-> route, roles |-> {}, q |-> q, user |-> NULL]
            /\ resp' = [op |-> "limited", out |-> r.out]
            /\ hits' = [hits EXCEPT ![route][c] =
                           IF @ < RouteLimit(route) THEN @ + 1 ELSE @]
    /\ UNCHANGED <<rows, nextId, now, pc, arg, calc, settings, loginAttempts,
                   users, session, ipFailed, sessions>>

-----------------------------------------------------------------------------
(* Session lifecycle: /session, /logout, /change-password (AuthController) *)

\* a request of client c: its cookie brings req.session
SessionRequest(c, method, token) ==
    Request(c, method, token, NoToken, NoToken, session[c], NULL, TRUE, 0)

\* POST /login of the administrator from a browser without a session
SignIn(c) ==
    /\ session[c] = NoSession
    /\ Login(LoginRequest(c, "admin", users["admin"].password, 0))

\* validateSession in front of a protected handler (GET /api/auth/session)
CheckSession(c) ==
    Middleware(Mw("validateSession", 0, {}), SessionRequest(c, "GET", NoToken))

\* UPDATE sessions SET is_valid = 0 WHERE session_token = ?
InvalidateToken(tbl, c) ==
    IF MapHas(tbl, c) THEN [tbl EXCEPT ![c].isValid = FALSE] ELSE tbl

\* UPDATE sessions SET is_valid = 0 WHERE user_id = ? AND session_token != ?
InvalidateOthers(tbl, userId, c) ==
    [d \in DOMAIN tbl |->
        IF tbl[d].userId = userId /\ d # c
        THEN [tbl[d] EXCEPT !.isValid = FALSE] ELSE tbl[d]]

\* POST /logout: validateSession, AuthController.logout
Logout(c) ==
    /\ Idle
    /\ LET q == SessionRequest(c, "POST", NoToken)
           r == RunChain(<<Mw("validateSession", 0, {})>>, 1, World(clock), q)
       IN /\ req' = [route |-> "logout", roles |-> {}, q |-> q,
                     user |-> r.q.user]
          /\ IF r.out.next
             THEN /\ sessions' = InvalidateToken(sessions, c)
                  /\ session' = [session EXCEPT ![c] = NoSession]
                  /\ resp' = [op |-> "logout", out |-> Respond(200, "", 0)]
             ELSE /\ resp' = [op |-> "middleware", out |-> r.out]
                  /\ UNCHANGED <<session, sessions>>
    /\ UNCHANGED <<rows, nextId, now, audit, pc, arg, calc, settings,
                   rateLimitStore, loginAttempts, users, clock, ipFailed,
                   hits>>

\* Security.isStrongPassword
isStrongPassword(password) == password = "new"

UserOf(us, userId) == CHOOSE u \in DOMAIN us : us[u].id = userId

\* POST /change-password: validateSession, csrfProtection,
\* AuthController.changePassword with User.changePassword
ChangePassword(c, token, currentPassword, newPassword) ==
    /\ Idle
    /\ LET q == SessionRequest(c, "POST", token)
           r == RunChain(<<Mw("validateSession", 0, {}),
                           Mw("csrfProtection", 0, {})>>, 1, World(clock), q)
           userId == session[c].userId
           changed == /\ r.out.next
                      /\ currentPassword # "" /\ newPassword # ""
                      /\ isStrongPassword(newPassword)
                      /\ verifyPassword(currentPassword,
                                        users[UserOf(users, userId)].password)
       IN /\ req' = [route |-> "changePassword", roles |-> {}, q |-> q,
                     user |-> r.q.user]
          /\ users' = IF changed
                      THEN [users EXCEPT ![UserOf(users, userId)].password =
                                             newPassword]
                      ELSE users
          /\ sessions' = IF changed THEN InvalidateOthers(sessions, userId, c)
                         ELSE sessions
          /\ resp' = IF ~r.out.next THEN [op |-> "middleware", out |-> r.out]
                     ELSE [op |-> "changePassword",
                           out |-> IF changed THEN Respond(200, "", 0)
                                   ELSE Respond(400, "PASSWORD_CHANGE_FAILED",
                                                0)]
    /\ UNCHANGED <<rows, nextId, now, audit, pc, arg, calc, settings,
                   rateLimitStore, loginAttempts, session, clock, ipFailed,
                   hits>>

-----------------------------------------------------------------------------
(* User management: deleteUser, updateUser, toggleUserStatus
   (UserController over User.update and User.delete) *)

\* User.findById
UserExists(us, id) == \E u \in DOMAIN us : us[u].id = id

\* SELECT COUNT(*) FROM users WHERE role = "admin" AND is_active = 1
AdminCount(us) ==
    Cardinality({u \in DOMAIN us : us[u].role = "admin" /\ us[u].isActive})

\* the administrators that can act: active, with the admin role
ActingAdmins ==
    {users[u].id : u \in {n \in DOMAIN users :
                              users[n].role = "admin" /\ users[n].isActive}}

\* User.update on the fields the controllers pass: role when truthy,
\* isActive when defined
UserUpdate(us, id, role, isActive) ==
    LET u == UserOf(us, id)
    IN [us EXCEPT ![u].role = IF role # "" THEN role ELSE @,
                  ![u].isActive = IF isActive # UNDEF THEN isActive = 1
                                  ELSE @]

\* what a user-management handler leaves alone
UserFrame ==
    UNCHANGED <<rows, nextId, now, pc, arg, calc, settings, rateLimitStore,
                loginAttempts, session, clock, req, ipFailed, hits>>

\* DELETE /users/:id
DeleteUser(actor, id) ==
    /\ Idle
    /\ actor \in ActingAdmins
    /\ IF id = actor
       THEN /\ resp' = Rejected("deleteUser", id, 400, "SELF_DELETE")
            /\ UNCHANGED <<users, sessions, audit>>
       ELSE IF ~UserExists(users, id)
       THEN /\ resp' = Rejected("deleteUser", id, 404, "NOT_FOUND")
            /\ UNCHANGED <<users, sessions, audit>>
       ELSE IF users[UserOf(users, id)].role = "admin" /\ AdminCount(users) <= 1
       THEN \* User.delete throws 'Cannot delete the last admin user'
            /\ resp' = Rejected("deleteUser", id, 400, "DELETE_ERROR")
            /\ UNCHANGED <<users, sessions, audit>>
       ELSE /\ \E logOk \in LogOutcomes(audit) :
                 audit' = LogChange(audit, id, "DELETE", logOk)
            /\ sessions' = [c \in {d \in DOMAIN sessions :
                                      sessions[d].userId # id} |-> sessions[c]]
            /\ users' = [u \in DOMAIN users \ {UserOf(users, id)} |-> users[u]]
            /\ resp' = [op |-> "deleteUser", actor |-> actor, id |-> id,
                        status |-> 200]
    /\ UserFrame

\* PUT /users/:id with role and isActive in the body
UpdateUser(actor, id, role, isActive) ==
    /\ Idle
    /\ actor \in ActingAdmins
    /\ IF ~UserExists(users, id)
       THEN /\ resp' = Rejected("updateUser", id, 404, "NOT_FOUND")
            /\ UNCHANGED <<users, audit>>
       ELSE /\ \E logOk \in LogOutcomes(audit) :
                 audit' = LogChange(audit, id, "UPDATE", logOk)
            /\ users' = UserUpdate(users, id, role, isActive)
            /\ resp' = [op |-> "updateUser", actor |-> actor, id |-> id,
                        status |-> 200]
    /\ UNCHANGED sessions
    /\ UserFrame

\* PATCH /users/:id/status with isActive in the body
ToggleUserStatus(actor, id, isActive) ==
    /\ Idle
    /\ actor \in ActingAdmins
    /\ IF id = actor /\ isActive # 1
       THEN /\ resp' = Rejected("toggleUserStatus", id, 400, "SELF_DEACTIVATE")
            /\ UNCHANGED <<users, audit>>
       ELSE IF ~UserExists(users, id)
       THEN /\ resp' = Rejected("toggleUserStatus", id, 404, "NOT_FOUND")
            /\ UNCHANGED <<users, audit>>
       ELSE /\ \E logOk \in LogOutcomes(audit) :
                 audit' = LogChange(audit, id, "UPDATE", logOk)
            /\ users' = UserUpdate(users, id, "", isActive)
            /\ resp' = [op |-> "toggleUserStatus", actor |-> actor,
                        id |-> id, status |-> 200]
    /\ UNCHANGED sessions
    /\ UserFrame

\* ids in the requests: the seeded users and one that does not exist
UserIds == 1..4

-----------------------------------------------------------------------------
(* The admin routes of the price records (src/routes/gold.js, currency) *)

AdminRoutes == {"createPrice", "updatePrice", "deletePrice", "autoUpdate",
                "bulkUpdate"}

\* requireRole([...]) of the route
RouteRoles(route) ==
    IF route \in {"createPrice", "updatePrice"} THEN {"admin", "manager"}
    ELSE {"admin"}

\* variant: the role check left out of the chain
RouteChainNoRole(route) ==
    << Mw("validateSession", 0, {}), Mw("csrfProtection", 0, {}) >>

\* the middleware of the route, in the order router.post lists it
RouteChain(route) ==
    << Mw("validateSession", 0, {}),
       Mw("requireRole", 0, RouteRoles(route)),
       Mw("csrfProtection", 0, {}) >>
    \o (IF route = "autoUpdate"
        THEN << Mw("rateLimiter", AutoMaxRequests, {}) >> ELSE << >>)

\* verb of the route
RouteMethod(route) ==
    CASE route = "updatePrice" -> "PUT"
      [] route = "deletePrice" -> "DELETE"
      [] OTHER -> "POST"

\* session and token of a request: no session; the right token under each
\* role; a wrong token; no token
RouteCredentials ==
    { <<"", "t1">>, <<"admin", "t1">>, <<"manager", "t1">>, <<"user", "t1">>,
      <<"admin", "t2">>, <<"user", NoToken>> }

SessionOf(u) ==
    IF u = "" THEN NoSession
    ELSE [userId |-> SeedUsers[u].id, role |-> SeedUsers[u].role,
          csrfToken |-> "t1"]

\* requests to an admin route
RouteInputs(route) ==
    {Request("ip1", RouteMethod(route), cr[2], NoToken, NoToken,
             SessionOf(cr[1]), NULL, TRUE, 0) : cr \in RouteCredentials}

\* the payloads and ids sent to the admin routes
RouteData  == Data("USD", 100, 100, 0, 0, 1)
RouteId    == 1
RouteRates == << RouteData, Missing >>

\* the handler behind the chain, on a payload it accepts
Controller(route) ==
    CASE route = "createPrice" -> create(RouteData)
      [] route = "updatePrice" -> \E pd \in UpdateInputs : update(RouteId, pd)
      [] route = "deletePrice" -> delete(RouteId)
      [] route = "autoUpdate"  -> \E base \in AutoBases : autoUpdatePrices(base)
      [] OTHER                 -> bulkUpdate(RouteRates)

\* the requests to the admin routes arrive within one reading of the
\* server clock
Route(route, q) ==
    /\ Idle
    /\ \E t \in {clock} :
         LET r == RunChain(RouteChain(route), 1, World(t), q)
         IN /\ clock' = t
            /\ rateLimitStore' = r.w.rl
            /\ loginAttempts' = r.w.la
            /\ req' = [route |-> route, roles |-> RouteRoles(route),
                       q |-> q, user |-> r.q.user]
            /\ IF r.out.next
               THEN Controller(route)
               ELSE /\ resp' = [op |-> "middleware", out |-> r.out]
                    /\ audit' = r.w.audit
                    /\ UNCHANGED <<rows, nextId, now, pc, arg, calc>>
    /\ UNCHANGED <<settings, users, session, ipFailed, sessions, hits>>

-----------------------------------------------------------------------------

Init ==
    /\ rows = {}
    /\ nextId = 1
    /\ now = 1
    /\ audit = <<>>
    /\ resp = [op |-> "none"]
    /\ pc = [p \in Procs |-> "idle"]
    /\ arg = [p \in Procs |-> NULL]
    /\ calc = [fn |-> "none"]
    /\ settings = SeedSettings
    /\ rateLimitStore = EmptyMap
    /\ loginAttempts = EmptyMap
    /\ users = SeedUsers
    /\ session = [c \in Clients |-> NoSession]
    /\ clock = 1
    /\ req = [route |-> "none"]
    /\ ipFailed = [c \in Clients |-> <<>>]
    /\ sessions = EmptyMap
    /\ hits = [r \in LimitedRoutes |-> [c \in Clients |-> 0]]

\* one caller at a time: every handler runs to completion
Next ==
    \/ \E data \in CreateInputs : Create(data)
    \/ \E id \in 1..MaxRows : \E pd \in UpdateInputs : Update(id, pd)
    \/ \E id \in 1..MaxRows : Delete(id)
    \/ \E i \in Instruments : GetCurrent(i)
    \/ \E base \in AutoBases : AutoUpdate(base)
    \/ \E rates \in BulkInputs : BulkUpdate(rates)

Spec == Init /\ [][Next]_vars

\* the conversion endpoint over the rates that create and update leave behind
NextConv ==
    \/ \E data \in CreateInputs : Create(data)
    \/ \E id \in 1..MaxRows : \E pd \in UpdateInputs : Update(id, pd)
    \/ \E a \in Amounts : \E from, to \in Currencies : \E type \in Types :
         Convert(a, from, to, type)

SpecConv == Init /\ [][NextConv]_vars

\* callers interleaved at the await points of create
NextConc ==
    \/ \E p \in Procs : \E data \in CreateInputs : CreateClose(p, data)
    \/ \E p \in Procs : CreateInsert(p)
    \/ \E p \in Procs : CreateInsertFails(p)
    \/ \E i \in Instruments : GetCurrent(i)

SpecConc == Init /\ [][NextConc]_vars

\* the settings store
RoundTripKeys == {"max_login_attempts", "session_timeout"}

NextSettings ==
    \/ \E k \in RoundTripKeys : \E v \in SettingValues : \E ty \in SettingTypes :
         SettingSet(k, v, ty)
    \/ \E k \in RoundTripKeys : SettingGet(k)
    \/ \E k \in RoundTripKeys : SettingDelete(k)

SpecSettings == Init /\ [][NextSettings]_vars

\* the middleware that keeps state between requests, each on its own
NextLimiter ==
    \E m \in {c \in MwConfigs : c.kind \in StatefulMw} :
        \E q \in MwInputs(m.kind) : Middleware(m, q)

SpecLimiter == Init /\ [][NextLimiter]_vars

\* the middleware that looks at the request only, each on its own
NextMw ==
    \E m \in {c \in MwConfigs : c.kind \notin StatefulMw} :
        \E q \in MwInputs(m.kind) : Middleware(m, q)

SpecMw == Init /\ [][NextMw]_vars

\* the login route
NextLogin == \E q \in LoginInputs : Login(q)

SpecLogin == Init /\ [][NextLogin]_vars

\* the admin routes
NextRoutes == \E route \in AdminRoutes : \E q \in RouteInputs(route) : Route(route, q)

SpecRoutes == Init /\ [][NextRoutes]_vars

\* the market hours under the settings an administrator writes
NextMarket ==
    \/ \E k \in MarketKeys : \E v \in MarketValues(k) :
         SettingSet(k, v, "string")
    \/ \E tm \in MarketTimes : \E day \in MarketDays : IsMarketOpen(tm, day)

SpecMarket == Init /\ [][NextMarket]_vars

\* the operations that write an audit entry, on one record and one setting
NextAudit ==
    \/ Create(RouteData)
    \/ \E pd \in UpdateInputs : Update(RouteId, pd)
    \/ Delete(RouteId)
    \/ SettingSet("session_timeout", JsNumber(7), "integer")
    \/ SettingDelete("session_timeout")

SpecAudit == Init /\ [][NextAudit]_vars

\* two browsers of the administrator, who knows the password and signs in
\* where no session is open
NextSession ==
    \/ \E c \in Clients : SignIn(c)
    \/ \E c \in Clients : Logout(c)
    \/ \E c \in Clients : \E cur \in {"good", "bad"} :
         ChangePassword(c, "t1", cur, "new")
    \/ \E c \in Clients : CheckSession(c)

SpecSession == Init /\ [][NextSession]_vars

\* manual gold prices and the automatic batch
GoldInputs == { Data("G18", 700, 760, 0, 0, 1) }

NextAuto ==
    \/ \E data \in GoldInputs : Create(data)
    \/ \E base \in AutoBases : AutoUpdate(base)
    \/ \E id \in 1..MaxRows : Delete(id)
    \/ \E i \in {GoldTypes[k] : k \in 1..Len(GoldTypes)} : GetCurrent(i)

SpecAuto == Init /\ [][NextAuto]_vars

\* the controllers that look a record up by id, on accepted bodies
NextFind ==
    \/ CreatePrice(Data("USD", 100, 100, UNDEF, UNDEF, 1))
    \/ \E id \in 1..MaxRows :
         UpdatePrice(id, Data(NULL, UNDEF, 380, UNDEF, UNDEF, UNDEF))
    \/ \E id \in 1..MaxRows : DeletePrice(id)

SpecFind == Init /\ [][NextFind]_vars

\* the price controllers on bodies of every kind
NextCtl ==
    \/ \E body \in CreateBodies : CreatePrice(body)
    \/ \E id \in 1..MaxRows : \E body \in UpdateBodies : UpdatePrice(id, body)
    \/ \E id \in 1..MaxRows : DeletePrice(id)
    \/ \E rates \in BulkBodies : BulkUpdate(rates)
    \/ \E base \in BaseBodies : AutoUpdate(base)

SpecCtl == Init /\ [][NextCtl]_vars

\* one client on the two limited routes
NextShared == \E route \in LimitedRoutes : Limited(route, "ip1")

SpecShared == Init /\ [][NextShared]_vars

\* user management by any active administrator
NextUsers ==
    \/ \E actor \in UserIds : \E id \in UserIds : DeleteUser(actor, id)
    \/ \E actor \in UserIds : \E id \in UserIds :
         \E role \in {"", "admin", "user"} : \E isActive \in {UNDEF, 0, 1} :
            UpdateUser(actor, id, role, isActive)
    \/ \E actor \in UserIds : \E id \in UserIds :
         \E isActive \in {0, 1} : ToggleUserStatus(actor, id, isActive)

SpecUsers == Init /\ [][NextUsers]_vars

\* the calculator applied to arbitrary records
NextCalc ==
    \E b, sl \in RawRates : \E mb, ms \in Margins : \E type \in Types :
        ApplyFinalRate(b, sl, mb, ms, type)

SpecCalc == Init /\ [][NextCalc]_vars

-----------------------------------------------------------------------------
(* Properties *)

OpenCount(i) == Cardinality(OpenRows(rows, i))

\* C1: after any sequence of whole price-store operations (create, update,
\* delete, auto-update, bulk-update) every instrument has at most one
\* record whose effectiveUntil is null.
C1_AtMostOneOpen == \A i \in Instruments : OpenCount(i) <= 1

\* an instrument with a closed and an open record after a batch operation
C1_Witness ==
    /\ resp.op \in {"bulkUpdate", "autoUpdate"}
    /\ \E i \in Instruments :
         /\ OpenCount(i) = 1
         /\ \E r \in rows : r.inst = i /\ r.until # NULL

\* C2: getCurrent issued right after a create for the same instrument
\* returns the record that create inserted.
C2_CreateThenGetCurrent ==
    (resp.op = "getCurrent" /\ resp.after # NULL) => resp.ret = resp.after

\* create, then getCurrent, both in the second of an earlier create
C2_Witness ==
    /\ resp.op = "getCurrent"
    /\ resp.after # NULL
    /\ resp.ret = resp.after
    /\ \E r \in rows : /\ r.inst = resp.inst
                       /\ r.id # resp.after
                       /\ r.from = now
                       /\ RowOf(rows, resp.after).from = now

\* C3: create for an instrument that has an open record closes it with an
\* effectiveUntil that is not null and not after the new record's
\* effectiveFrom, and leaves the new record as the only open one.
C3_CreateClosesPrior ==
    [][(resp'.op = "create" /\ resp'.ok) =>
          LET i   == resp'.inst
              new == RowOf(rows', resp'.inserted)
          IN /\ OpenRows(rows', i) = {new}
             /\ new.id \notin {r.id : r \in rows}
             /\ \A r \in OpenRows(rows, i) :
                  \E c \in rows' : /\ c.id = r.id
                                   /\ c.until # NULL
                                   /\ c.until <= new.from]_vars

\* a create that closed record 1, one second before the new record starts
C3_Witness ==
    /\ resp.op = "create"
    /\ resp.ok
    /\ resp.inserted = 2
    /\ \E r \in rows : /\ r.id = 1
                       /\ r.inst = resp.inst
                       /\ r.until # NULL
                       /\ r.until < RowOf(rows, 2).from

\* the record the claim expects of getCurrent: greatest effectiveFrom among
\* the qualifying records, highest id among equals, NULL when none
ExpectedCurrent(i, t) ==
    LET q == {r \in rows : r.inst = i /\ r.from <= t
                           /\ (r.until = NULL \/ r.until > t)}
    IN IF q = {} THEN NULL
       ELSE (CHOOSE r \in q :
               \A o \in q : o.from < r.from \/ (o.from = r.from /\ o.id <= r.id)).id

\* C4: getCurrent returns the qualifying record with the greatest
\* effectiveFrom, the highest id among records sharing it, and null when no
\* record qualifies.
C4_GetCurrentTieBreak ==
    resp.op = "getCurrent" => resp.ret = ExpectedCurrent(resp.inst, now)

\* what the claim expects of a merged price and of a merged margin / flag
ExpectPrice(given, old) == IF given = UNDEF \/ given = 0 THEN old ELSE given
ExpectField(given, old) == IF given = UNDEF THEN old ELSE given

SameQuote(a, b) ==
    /\ a.inst = b.inst /\ a.buy = b.buy /\ a.sell = b.sell
    /\ a.spread = b.spread /\ a.marginBuy = b.marginBuy
    /\ a.marginSell = b.marginSell /\ a.isManual = b.isManual
    /\ a.from = b.from

\* C5: update of an open record leaves that record's quote untouched,
\* closes it and inserts a new open record with the merged fields; update
\* of a closed record rewrites that record in place, keeps the number of
\* records and leaves every other record, the open one included, as it was.
C5_UpdateVersionsOrEdits ==
    [][(resp'.op = "update" /\ resp'.ok) =>
          LET id  == resp'.id
              pd  == resp'.pd
              old == RowOf(rows, id)
              cur == RowOf(rows', id)
          IN IF old.until = NULL
             THEN /\ SameQuote(old, cur)
                  /\ cur.until # NULL
                  /\ Cardinality(rows') = Cardinality(rows) + 1
                  /\ \E n \in rows' :
                       /\ n.id = resp'.inserted
                       /\ n.id \notin {r.id : r \in rows}
                       /\ n.until = NULL
                       /\ n.inst = old.inst
                       /\ n.buy = ExpectPrice(pd.buy, old.buy)
                       /\ n.sell = ExpectPrice(pd.sell, old.sell)
                       /\ n.marginBuy = ExpectField(pd.marginBuy, old.marginBuy)
                       /\ n.marginSell = ExpectField(pd.marginSell, old.marginSell)
                       /\ n.isManual = ExpectField(pd.isManual, old.isManual)
             ELSE /\ Cardinality(rows') = Cardinality(rows)
                  /\ {r \in rows' : r.id # id} = {r \in rows : r.id # id}
                  /\ cur.inst = old.inst
                  /\ cur.from = old.from
                  /\ cur.until = old.until
                  /\ cur.buy = ExpectPrice(pd.buy, old.buy)
                  /\ cur.sell = ExpectPrice(pd.sell, old.sell)
                  /\ cur.marginBuy = ExpectField(pd.marginBuy, old.marginBuy)
                  /\ cur.marginSell = ExpectField(pd.marginSell, old.marginSell)
                  /\ cur.isManual = ExpectField(pd.isManual, old.isManual)]_vars

\* a closed record edited in place (sell 380, manual) next to the open
\* record that an earlier update or create of the instrument left
C5_Witness ==
    /\ resp.op = "update"
    /\ resp.ok
    /\ resp.inserted = NULL
    /\ \E r \in rows : /\ r.id = resp.id
                       /\ r.until # NULL
                       /\ r.sell = 380
                       /\ r.buy = 100
                       /\ r.isManual = 1
                       /\ \E o \in rows : o.inst = r.inst /\ o.until = NULL

\* C6: a create that fails after its UPDATE closed the open record does not
\* leave the instrument without an open record.
C6_CreateAtomicOnFailure ==
    (resp.op = "create" /\ ~resp.ok /\ resp.changes > 0)
        => OpenRows(rows, resp.inst) # {}

\* C7: with creates interleaved at their statements an instrument can hold
\* two open records; every open record next to the one a create inserted
\* was itself inserted between that create's UPDATE and its INSERT.
C7_DuplicatesOnlyFromOverlap ==
    (resp.op = "create" /\ resp.ok) =>
        \A r \in OpenRows(rows, resp.inst) :
            r.id # resp.inserted => r.id >= resp.since

\* two open records of one instrument
C7_Witness == \E i \in Instruments : OpenCount(i) = 2

\* C8: the final rate is r + r * m for buy and r - r * m for sell, on the
\* record's own side; buy never falls below raw, sell never rises above it;
\* finalRate(buy, 100, 0.02) = 102 and finalRate(sell, 100, 0.02) = 98.
C8_FinalRate ==
    calc.fn = "finalRate" =>
        /\ calc.type = "buy" =>
             /\ calc.out = calc.buy * (MarginScale + calc.marginBuy)
             /\ calc.out >= calc.buy * MarginScale
             /\ (calc.buy = 100 * RateScale /\ calc.marginBuy = 2)
                   => calc.out = 102 * RateScale * MarginScale
        /\ calc.type = "sell" =>
             /\ calc.out = calc.sell * (MarginScale - calc.marginSell)
             /\ calc.out <= calc.sell * MarginScale
             /\ (calc.sell = 100 * RateScale /\ calc.marginSell = 2)
                   => calc.out = 98 * RateScale * MarginScale

\* finalRate(sell, 100, 0.02) = 98 on a record whose buy side differs
C8_Witness ==
    /\ calc.fn = "finalRate"
    /\ calc.type = "sell"
    /\ calc.sell = 100 * RateScale
    /\ calc.marginSell = 2
    /\ calc.buy = 375
    /\ calc.marginBuy = 100
    /\ calc.out = 98 * RateScale * MarginScale

\* the final rate of a stored record, from its raw rate and margin
QuoteOf(id, type) ==
    LET r == RowOf(rows, id)
    IN IF type = "buy" THEN r.buy * (MarginScale + r.marginBuy)
                       ELSE r.sell * (MarginScale - r.marginSell)

\* v (in 1 / Precision4) is n / d rounded to four decimal places
IsRounded4(v, n, d) ==
    LET f == v - (n \div d) * Precision4
        e == f * d - (n % d) * Precision4
    IN f >= 0 /\ f <= Precision4 /\ 2 * e <= d /\ 2 * e >= 0 - d

\* C9: convert answers result = amount / finalFrom * finalTo and
\* rate = finalTo / finalFrom, both rounded to four decimal places;
\* 100 at final rates 1.0 and 3.75 gives 375.
C9_ConvertFormula ==
    (resp.op = "convert" /\ resp.status = 200
        /\ QuoteOf(resp.fromId, resp.type) # 0) =>
        LET ff == QuoteOf(resp.fromId, resp.type)
            ft == QuoteOf(resp.toId, resp.type)
        IN /\ IsRounded4(resp.result, resp.amount * ft, ff)
           /\ IsRounded4(resp.rate, ft, ff)
           /\ (resp.amount = 100 /\ ff = RateScale * MarginScale
                 /\ 100 * ft = 375 * RateScale * MarginScale)
                => resp.result = 375 * Precision4

\* convert(100, USD, SAR, buy) at final rates 1.0 and 3.75
C9_Witness ==
    /\ resp.op = "convert"
    /\ resp.status = 200
    /\ resp.amount = 100
    /\ resp.type = "buy"
    /\ QuoteOf(resp.fromId, "buy") = RateScale * MarginScale
    /\ 100 * QuoteOf(resp.toId, "buy") = 375 * RateScale * MarginScale
    /\ resp.result = 375 * Precision4

\* C10: convert never answers with success and an infinite or NaN result
\* or rate; a zero final rate of the source currency is a domain error.
C10_NoInfiniteOrNaN ==
    (resp.op = "convert" /\ resp.status = 200) =>
        /\ resp.result \notin {INF, NAN}
        /\ resp.rate \notin {INF, NAN}

\* C11: set(key, n, 'integer') followed by get(key) returns the integer n,
\* and set(key, b, 'boolean') followed by get(key) returns the boolean b,
\* whatever value and type the key held before.
C11_SettingsRoundTrip ==
    [][(resp.op = "set" /\ resp'.op = "get" /\ resp'.key = resp.key) =>
         /\ (resp.type = "integer" /\ resp.value.t = "number") =>
              (resp'.ret.t = "number" /\ resp'.ret.v = resp.value.v)
         /\ (resp.type = "boolean" /\ resp.value.t = "boolean") =>
              (resp'.ret.t = "boolean" /\ resp'.ret.v = resp.value.v)]_vars

\* get answers the integer -12 for a key that was seeded with 5, while the
\* other key has been overwritten with the boolean false
C11_Witness ==
    /\ resp.op = "get"
    /\ resp.key = "max_login_attempts"
    /\ resp.ret.t = "number"
    /\ resp.ret.v = 0 - 12
    /\ \E r \in settings : /\ r.key = "session_timeout"
                            /\ r.type = "boolean"
                            /\ r.value = <<Chr0>>

\* the accepted requests of client c that the limiter still counts at t
InWindow(store, c, t) ==
    IF MapHas(store, c)
    THEN Len(SelectSeq(store[c].requests, LAMBDA ts : t - ts < WindowMs))
    ELSE 0

\* C12: once a client has N accepted requests inside the window, its next
\* request is answered 429 with a retry-after of at most the window; once the
\* window has passed since its accepted requests, its request is accepted.
C12_RateLimiter ==
    [][(req'.route = "rateLimiter" /\ req'.q.throws = 0) =>
         LET n == InWindow(rateLimitStore, req'.q.client, DateNow(clock'))
         IN /\ n >= LoginMaxRequests =>
                 /\ resp'.out.status = 429
                 /\ resp'.out.retryAfter * 1000 <= WindowMs
            /\ n = 0 => resp'.out.next]_vars

\* C13: csrfProtection passes a GET, HEAD or OPTIONS request always, and any
\* other request exactly when a token is supplied (header, else body, else
\* query) and equals, case-sensitively, the csrfToken of the session; every
\* other such request is answered 403.
C13_CsrfExactMatch ==
    (req.route = "csrfProtection" /\ req.q.throws = 0) =>
        LET q == req.q
            supplied == IF q.header # "" THEN q.header
                        ELSE IF q.body # "" THEN q.body ELSE q.query
        IN IF q.method \in {"GET", "HEAD", "OPTIONS"} THEN resp.out.next
           ELSE /\ resp.out.next <=> (/\ supplied # ""
                                      /\ q.session.csrfToken # ""
                                      /\ supplied = q.session.csrfToken)
                /\ ~resp.out.next => resp.out.status = 403

\* a POST whose header token differs from the session token in letter case
\* only is answered 403 CSRF_INVALID
C13_Witness ==
    /\ req.route = "csrfProtection"
    /\ req.q.throws = 0
    /\ req.q.method = "POST"
    /\ req.q.header = "T1"
    /\ req.q.session.csrfToken = "t1"
    /\ resp.out.status = 403
    /\ resp.out.code = "CSRF_INVALID"

\* C14: every rejection for a mismatched CSRF token and every rejection by
\* the role check appends one entry to the audit log.
C14_RejectionsAudited ==
    [][(/\ req'.route \in {"csrfProtection", "requireRole"}
        /\ resp'.out.code \in {"CSRF_INVALID", "INSUFFICIENT_PERMISSIONS"})
       => Len(audit') = Len(audit) + 1]_vars

\* C15: once a client has made MaxLoginAttempts failed logins, every login
\* request it sends before the lockout duration has run out is answered
\* 423 ACCOUNT_LOCKED, whatever the credentials.
C15_IpLockout ==
    [][(/\ req'.route = "login"
        /\ Len(ipFailed[req'.q.client]) >= MaxLoginAttempts
        /\ DateNow(clock') <
               ipFailed[req'.q.client][Len(ipFailed[req'.q.client])]
                   + LockoutDuration * 1000)
       => (resp'.out.status = 423 /\ resp'.out.code = "ACCOUNT_LOCKED")]_vars

\* the allow-list of each admin route
AllowedRoles(route) ==
    IF route \in {"createPrice", "updatePrice"} THEN {"admin", "manager"}
    ELSE {"admin"}

\* the request carries the token of its session
TokenMatches(q) ==
    SuppliedToken(q) # NoToken /\ SuppliedToken(q) = q.session.csrfToken

\* C16: on an admin price route the handler runs, and the price store
\* changes, only for a request whose session has a userId, whose role is in
\* the route's allow-list and whose CSRF token equals the session's.
C16_AdminGate ==
    [][(/\ req'.route \in AdminRoutes
        /\ (resp'.op # "middleware" \/ rows' # rows \/ nextId' # nextId))
       => (/\ req'.q.session.userId # NULL
           /\ req'.q.session.role \in AllowedRoles(req'.route)
           /\ TokenMatches(req'.q))]_vars

C16_Witness ==
    /\ req.route = "deletePrice"
    /\ req.q.session.role = "admin"
    /\ resp.op = "delete"
    /\ resp.ok
    /\ \A r \in rows : r.id # RouteId

\* C17: a request of a logged-in session to an admin route that has a bad
\* or missing CSRF token and a role outside the allow-list is answered with
\* the CSRF error, not with INSUFFICIENT_PERMISSIONS.
C17_CsrfBeforeRole ==
    [][(/\ req'.route \in AdminRoutes
        /\ req'.q.session.userId # NULL
        /\ ~TokenMatches(req'.q)
        /\ req'.q.session.role \notin AllowedRoles(req'.route))
       => (/\ resp'.op = "middleware"
           /\ resp'.out.code \in {"CSRF_MISSING", "CSRF_INVALID"})]_vars

\* C18: a stage of the security middleware that raises an exception answers
\* with a 5xx error and does not pass the request on.
C18_ExceptionIs5xx ==
    (req.route \in MwKinds /\ req.q.throws = 1)
        => (~resp.out.next /\ resp.out.status >= 500)

\* C19: isMarketOpen answers true exactly when the day is one of the
\* configured days and openTime <= currentTime < closeTime; at closeTime
\* it answers false.
C19_MarketHours ==
    [][(UNCHANGED <<settings, resp, audit>> /\ calc'.fn = "isMarketOpen")
       => (calc'.ret <=>
             (/\ calc'.day \in getMarketSettings(settings).days
              /\ StrLessEq(getMarketSettings(settings).openTime.v,
                           calc'.time)
              /\ StrLess(calc'.time,
                         getMarketSettings(settings).closeTime.v)))]_vars

\* C20: when the insert into the audit log fails, create, update and delete
\* of a price and set and delete of a setting still answer as usual and
\* their change is in the tables.
C20_AuditFailureSwallowed ==
    [][audit' = audit =>
        /\ (resp'.op = "create"
              => resp'.ok /\ FindById(rows', resp'.inserted) # NULL)
        /\ (resp'.op = "update" /\ FindById(rows, resp'.id) # NULL
              => /\ resp'.ok
                 /\ IF resp'.inserted # NULL
                    THEN FindById(rows', resp'.inserted) # NULL
                    ELSE rows' = UpdateInPlace(rows, resp'.id, resp'.pd))
        /\ (resp'.op = "delete" /\ FindById(rows, resp'.id) # NULL
              => resp'.ok /\ FindById(rows', resp'.id) = NULL)
        /\ (resp'.op = "set"
              => /\ resp'.ok
                 /\ SettingRow(resp'.key,
                               Serialize(resp'.value, resp'.type),
                               resp'.type) \in settings')
        /\ (resp'.op = "deleteSetting"
                /\ SettingRows(settings, resp'.key) # {}
              => resp'.ok /\ SettingRows(settings', resp'.key) = {})]_vars

C20_Witness ==
    /\ resp.op = "delete"
    /\ resp.ok
    /\ audit = <<>>
    /\ FindById(rows, RouteId) = NULL
    /\ SettingRows(settings, "session_timeout") = {}

\* C21: a session invalidated by its logout, or by a password change made
\* from another session of the same user, is answered 401 by session
\* validation from then on.
C21_InvalidatedRejected ==
    [][(/\ resp'.op = "middleware"
        /\ req'.route = "validateSession"
        /\ MapHas(sessions, req'.q.client)
        /\ ~sessions[req'.q.client].isValid)
       => resp'.out.status = 401]_vars

\* C22: a delete of an existing record removes exactly that record and
\* leaves every other record as it was; the audit log gains the DELETE entry
\* of that id and nothing else (or stays as it was when the audit insert
\* failed); when the record removed was the open one of its instrument, no
\* record of the instrument is current from then on.
C22_DeleteFrame ==
    [][(resp'.op = "delete" /\ resp'.ok /\ FindById(rows, resp'.id) # NULL)
       => LET id  == resp'.id
              old == RowOf(rows, id)
          IN /\ rows' = rows \ {old}
             /\ audit' \in {audit, Append(audit, <<"DELETE", id>>)}
             /\ old.until = NULL
                  => \A t \in now'..MaxTime :
                        CurrentCandidates(rows', old.inst, t) = {}]_vars

\* the open record of an instrument deleted and its audit entry written,
\* a closed record of the instrument left behind
C22_Witness ==
    /\ resp.op = "delete" /\ resp.ok
    /\ Len(audit) > 0 /\ audit[Len(audit)] = <<"DELETE", resp.id>>
    /\ \E r \in rows : r.until # NULL /\ OpenRows(rows, r.inst) = {}

\* buy / sell of a gold type under base, to the nearest 1 / RateScale (a
\* half rounds up): x with |x - base * purity * pct / 100| <= 1/2
IsRound2(x, base, g, pct) ==
    LET exact == base * Purity(g) * pct        \* in 1 / (PurityScale * 100)
        unit  == PurityScale * MarginScale
    IN /\ 2 * (x * unit - exact) <= unit
       /\ 2 * (exact - x * unit) < unit

\* C24: after autoUpdate(base) every active gold type has exactly one open
\* record; it was created by this batch, has buy = round2(base * purity *
\* 0.98), sell = round2(base * purity * 1.02), both margins 0.02 and
\* isManual false; the record that was open before the batch is closed.
C24_AutoUpdate ==
    [][resp'.op = "autoUpdate"
       => \A k \in 1..Len(GoldTypes) :
            LET g == GoldTypes[k] IN
            /\ Cardinality(OpenRows(rows', g)) = 1
            /\ \A r \in OpenRows(rows', g) :
                 /\ r.id >= nextId /\ r.id < nextId'
                 /\ r \notin rows
                 /\ IsRound2(r.buy, resp'.base, g, 98)
                 /\ IsRound2(r.sell, resp'.base, g, 102)
                 /\ r.marginBuy = 2 /\ r.marginSell = 2
                 /\ r.isManual = 0
            /\ \A o \in OpenRows(rows, g) :
                 \E c \in rows' : c.id = o.id /\ c.until # NULL]_vars

\* the batch has run over a gold type that had an open record
C24_Witness ==
    /\ resp.op = "autoUpdate"
    /\ \E r \in rows : r.inst = "G18" /\ r.until # NULL /\ r.id < resp.first
    /\ \E r \in rows : r.inst = "G24" /\ r.until = NULL /\ r.buy = 980

\* C25: every stored record has spread = sell - buy, whatever creates and
\* updates have run, in-place updates of closed records that change only one
\* of buy and sell included.
C25_SpreadInvariant == \A r \in rows : r.spread = r.sell - r.buy

\* a closed record edited in place: sell replaced, buy kept
C25_Witness ==
    /\ resp.op = "update" /\ resp.ok /\ resp.inserted = NULL
    /\ resp.pd.buy = 0 /\ resp.pd.sell = 380
    /\ \E r \in rows : /\ r.id = resp.id /\ r.until # NULL
                       /\ r.buy = 100 /\ r.sell = 380 /\ r.spread = 280

\* C23: an update or a delete of an id that no record has is answered
\* 404 NOT_FOUND, writes no audit entry and leaves the price store as it was.
C23_NotFound ==
    [][(/\ resp'.op \in {"rejected", "update", "delete"}
        /\ (resp'.op = "rejected" => resp'.route \in {"updatePrice",
                                                       "deletePrice"})
        /\ FindById(rows, resp'.id) = NULL)
       => /\ resp'.op = "rejected" /\ resp'.status = 404
          /\ UNCHANGED <<rows, nextId, audit>>]_vars

\* DELETE of an unknown id answered 404 on a store that holds a record
C23_Witness ==
    /\ resp.op = "rejected" /\ resp.status = 404
    /\ resp.route = "deletePrice"
    /\ rows # {} /\ FindById(rows, resp.id) = NULL

\* C28: no record is stored with a buy or a sell price that is zero,
\* negative or NaN.
C28_PositivePrices ==
    \A r \in rows : /\ r.buy # NAN /\ r.buy > 0
                    /\ r.sell # NAN /\ r.sell > 0

\* C26: a request is refused by the limiter of a route only when the client
\* has sent that route as many requests as the route allows; requests to the
\* other limited route do not count.
C26_PerRouteLimit ==
    [][(resp'.op = "limited" /\ resp'.out.status = 429)
       => hits[req'.route][req'.q.client] >= RouteLimit(req'.route)]_vars

\* C27: a wrong password given after the lock of the account has run out
\* does not lock the account again, as long as fewer than the allowed number
\* of new failures have accumulated (here: the first one).
C27_RelockNeedsNewFailures ==
    [][(/\ resp'.op = "login" /\ resp'.out.code = "LOGIN_FAILED"
        /\ req'.q.username \in DOMAIN users
        /\ LET u == users[req'.q.username]
           IN /\ u.lockedUntil # NULL
              /\ u.lockedUntil <= DateNow(clock')
              /\ ~verifyPassword(req'.q.password, u.password))
       => LET v == users'[req'.q.username]
          IN ~(v.lockedUntil # NULL /\ v.lockedUntil > DateNow(clock'))]_vars

\* C30: whatever user-management operations have run, at least one active
\* user with the admin role exists.
C30_ActiveAdminRemains == AdminCount(users) >= 1

\* C29: the bulk update answers with totalProcessed = the length of rates
\* and successCount + errorCount = totalProcessed; the elements in errors
\* are those without a required field (no create fails here), the others
\* are successes, and the last such element of each instrument is its open
\* record.
C29_BulkUpdate ==
    [][resp'.op = "bulkUpdate"
       => LET rs == resp'.rates
              complete(k) == rs[k].buy # UNDEF /\ rs[k].sell # UNDEF
          IN /\ resp'.totalProcessed = Len(rs)
             /\ resp'.successCount + resp'.errorCount = resp'.totalProcessed
             /\ resp'.errorCount = Len(rs) - Creating(rs)
             /\ \A k \in 1..Len(rs) :
                  (/\ complete(k)
                   /\ \A j \in (k + 1)..Len(rs) :
                        ~(complete(j) /\ rs[j].inst = rs[k].inst))
                  => \E r \in OpenRows(rows', rs[k].inst) :
                        r.buy = rs[k].buy /\ r.sell = rs[k].sell]_vars

====
